---------------------------- MODULE Spec2Model ----------------------------
(***************************************************************************)
(* Event notification worker: the Redis-backed main queue and dead-letter  *)
(* queue, the retry handler (failure classification and retry decision),   *)
(* the rate-limited notification processor and the consumer loop.          *)
(*                                                                         *)
(* Python strings are TLA+ strings; str.lower(), the `in` substring test   *)
(* and the f-string formatting of the reasons are computed on them.        *)
(***************************************************************************)
EXTENDS Integers, Sequences, FiniteSets, TLC

(***************************************************************************)
(* Bounds of the model.                                                    *)
(***************************************************************************)
\* Largest retry_count of an event handed directly to should_retry.
MaxRetryCount == 4
\* Largest max_retries a RetryHandler is constructed with / configured with.
MaxRetriesArg == 3

None == "None"

(***************************************************************************)
(* Python string primitives.                                               *)
(***************************************************************************)
UpperChars == "ABCDEFGHIJKLMNOPQRSTUVWXYZ"
LowerChars == "abcdefghijklmnopqrstuvwxyz"

\* the lower-case letter of each upper-case letter
LowerOf ==
    [c \in {SubSeq(UpperChars, i, i) : i \in 1..Len(UpperChars)} |->
        LET i == CHOOSE j \in 1..Len(UpperChars) : SubSeq(UpperChars, j, j) = c
        IN  SubSeq(LowerChars, i, i)]

\* one character of str.lower()
lower_char(c) == IF c \in DOMAIN LowerOf THEN LowerOf[c] ELSE c

RECURSIVE lower_from(_, _)
\* str.lower() of s[i:], one character at a time
lower_from(s, i) ==
    IF i > Len(s) THEN ""
    ELSE lower_char(SubSeq(s, i, i)) \o lower_from(s, i + 1)

\* str.lower()
str_lower(s) == lower_from(s, 1)

\* Python's `needle in haystack` on strings
str_in(needle, haystack) ==
    \E i \in 1..(Len(haystack) - Len(needle) + 1) :
        SubSeq(haystack, i, i + Len(needle) - 1) = needle

\* any(indicator in message for indicator in indicators)
any_in(indicators, message) ==
    \E k \in 1..Len(indicators) : str_in(indicators[k], message)

\* str(error): BaseException.__str__ of a one-argument exception is the
\* argument; KeyError.__str__ is the repr of the argument.
str_error(error) ==
    IF error.kind = "KeyError" THEN "'" \o error.message \o "'"
    ELSE error.message

(***************************************************************************)
(* worker/retry.py                                                         *)
(***************************************************************************)
TRANSIENT == "transient"
PERMANENT == "permanent"
UNKNOWN   == "unknown"
FailureType == {TRANSIENT, PERMANENT, UNKNOWN}

transient_indicators ==
    <<"timeout", "connection", "temporary", "unavailable", "retry", "network">>

permanent_indicators ==
    <<"validation", "invalid", "malformed", "not found", "unauthorized", "forbidden">>

transient_types == {"ConnectionError", "TimeoutError", "OSError"}
permanent_types == {"ValueError", "KeyError", "TypeError"}

\* faulty variant: the exception type is tested before the message
classify_failure_TypeFirst(error) ==
    LET error_type == error.kind
        classify(error_message) ==
            IF error_type \in transient_types THEN TRANSIENT
            ELSE IF error_type \in permanent_types THEN PERMANENT
            ELSE IF any_in(transient_indicators, error_message) THEN TRANSIENT
            ELSE IF any_in(permanent_indicators, error_message) THEN PERMANENT
            ELSE UNKNOWN
    IN  CHOOSE failure_type \in {classify(m) : m \in {str_lower(str_error(error))}} : TRUE

\* faulty variant: the message is not lower-cased before the vocabulary test
classify_failure_NoLower(error) ==
    LET error_type == error.kind
        classify(error_message) ==
            IF any_in(transient_indicators, error_message) THEN TRANSIENT
            ELSE IF any_in(permanent_indicators, error_message) THEN PERMANENT
            ELSE IF error_type \in transient_types THEN TRANSIENT
            ELSE IF error_type \in permanent_types THEN PERMANENT
            ELSE UNKNOWN
    IN  CHOOSE failure_type \in {classify(m) : m \in {str_error(error)}} : TRUE

\* faulty variant: an unclassified error counts as permanent
classify_failure_DefaultPermanent(error) ==
    LET error_type == error.kind
        classify(error_message) ==
            IF any_in(transient_indicators, error_message) THEN TRANSIENT
            ELSE IF any_in(permanent_indicators, error_message) THEN PERMANENT
            ELSE IF error_type \in transient_types THEN TRANSIENT
            ELSE PERMANENT
    IN  CHOOSE failure_type \in {classify(m) : m \in {str_lower(str_error(error))}} : TRUE

\* RetryHandler.classify_failure
classify_failure(error) ==
    LET error_type == error.kind
        classify(error_message) ==
            IF any_in(transient_indicators, error_message) THEN TRANSIENT
            ELSE IF any_in(permanent_indicators, error_message) THEN PERMANENT
            ELSE IF error_type \in transient_types THEN TRANSIENT
            ELSE IF error_type \in permanent_types THEN PERMANENT
            ELSE UNKNOWN
    IN  CHOOSE failure_type \in {classify(m) : m \in {str_lower(str_error(error))}} : TRUE

\* RetryHandler.__init__: self.max_retries = max_retries or settings.max_retries
\* (the optional argument is {} for None and {m} for m)
RetryHandler_init(arg, settings_max_retries) ==
    IF arg = {} \/ arg = {0} THEN settings_max_retries
    ELSE CHOOSE m \in arg : TRUE

RetryDecision(sr, reason) == [should_retry |-> sr, reason |-> reason]

\* faulty variant: the retry budget is tested with > instead of >=
should_retry_OffByOne(max_retries, event, error) ==
    LET failure_type == classify_failure(error)
    IN  IF failure_type = PERMANENT
        THEN RetryDecision(FALSE,
                 "Permanent failure: " \o error.kind \o ": " \o str_error(error))
        ELSE IF event.retry_count > max_retries
        THEN RetryDecision(FALSE,
                 "Max retries (" \o ToString(max_retries) \o ") exceeded")
        ELSE RetryDecision(TRUE,
                 failure_type \o " failure, retry " \o ToString(event.retry_count + 1)
                     \o "/" \o ToString(max_retries))

\* faulty variant: the reason of a retry names the exception's type
should_retry_NamesKind(max_retries, event, error) ==
    LET failure_type == classify_failure(error)
    IN  IF failure_type = PERMANENT
        THEN RetryDecision(FALSE,
                 "Permanent failure: " \o error.kind \o ": " \o str_error(error))
        ELSE IF event.retry_count >= max_retries
        THEN RetryDecision(FALSE,
                 "Max retries (" \o ToString(max_retries) \o ") exceeded")
        ELSE RetryDecision(TRUE,
                 failure_type \o " failure (" \o error.kind \o "), retry "
                     \o ToString(event.retry_count + 1)
                     \o "/" \o ToString(max_retries))

\* faulty variant: the retry budget is tested before the permanent classification
should_retry_BudgetFirst(max_retries, event, error) ==
    LET failure_type == classify_failure(error)
    IN  IF event.retry_count >= max_retries
        THEN RetryDecision(FALSE,
                 "Max retries (" \o ToString(max_retries) \o ") exceeded")
        ELSE IF failure_type = PERMANENT
        THEN RetryDecision(FALSE,
                 "Permanent failure: " \o error.kind \o ": " \o str_error(error))
        ELSE RetryDecision(TRUE,
                 failure_type \o " failure, retry " \o ToString(event.retry_count + 1)
                     \o "/" \o ToString(max_retries))

\* RetryHandler.should_retry (max_retries is self.max_retries)
should_retry(max_retries, event, error) ==
    LET failure_type == classify_failure(error)
    IN  IF failure_type = PERMANENT
        THEN RetryDecision(FALSE,
                 "Permanent failure: " \o error.kind \o ": " \o str_error(error))
        ELSE IF event.retry_count >= max_retries
        THEN RetryDecision(FALSE,
                 "Max retries (" \o ToString(max_retries) \o ") exceeded")
        ELSE RetryDecision(TRUE,
                 failure_type \o " failure, retry " \o ToString(event.retry_count + 1)
                     \o "/" \o ToString(max_retries))


(***************************************************************************)
(* app/models/event.py                                                     *)
(***************************************************************************)
EventType ==
    {"USER_NOTIFICATION", "SYSTEM_ALERT", "EMAIL_NOTIFICATION", "SMS_NOTIFICATION"}

\* Event(event_type=..., user_id=..., payload=...): event_id and created_at
\* come from their default factories, retry_count and version from defaults.
Event(id, now, event_type, user_id, payload) ==
    [event_id |-> id, event_type |-> event_type, user_id |-> user_id,
     payload |-> payload, created_at |-> now, retry_count |-> 0,
     version |-> "1.0"]

\* faulty variant: the retry count is copied unchanged
increment_retry_Same(event) == event

\* faulty variant: the retry count is raised by two
increment_retry_Twice(event) ==
    [event EXCEPT !.retry_count = event.retry_count + 2]

\* faulty variant: the copy is built by the constructor, whose default factory
\* stamps a new created_at
increment_retry_Fresh(event) ==
    [Event(event.event_id, event.created_at + 1, event.event_type, event.user_id,
           event.payload) EXCEPT !.retry_count = event.retry_count + 1]

\* Event.increment_retry: model_copy(update={"retry_count": retry_count + 1})
increment_retry(event) ==
    [event EXCEPT !.retry_count = event.retry_count + 1]

\* Event.increment_retry: self after the call (model_copy writes no field of self)
increment_retry_self(event) == event

\* Event.model_dump_json / model_dump(mode="json"): the UUID and the datetime
\* are written as strings, the other fields as JSON values.
model_dump_json(event) ==
    [event_id |-> ToString(event.event_id), event_type |-> event.event_type,
     user_id |-> event.user_id, payload |-> event.payload,
     created_at |-> ToString(event.created_at),
     retry_count |-> event.retry_count, version |-> event.version]

\* The numbers a written event_id / created_at can stand for.
MaxEvents == 2
Ids == 1..MaxEvents

is_number(s) == \E n \in Ids : ToString(n) = s
parse_number(s) == CHOOSE n \in Ids : ToString(n) = s

\* Event.model_validate(json.loads(event_json)) accepts the record
model_validates(data) ==
    /\ is_number(data.event_id)
    /\ is_number(data.created_at)
    /\ data.event_type \in EventType
    /\ data.retry_count \in Nat

\* Event.model_validate(json.loads(event_json)) of an accepted record
model_validate(data) ==
    [event_id |-> parse_number(data.event_id), event_type |-> data.event_type,
     user_id |-> data.user_id, payload |-> data.payload,
     created_at |-> parse_number(data.created_at),
     retry_count |-> data.retry_count, version |-> data.version]

(***************************************************************************)
(* The state.                                                              *)
(***************************************************************************)
VARIABLES
    settings,     \* app/config.py Settings, fixed once loaded
    queue,        \* Redis list events:queue; index 1 is the left end
    dlq,          \* Redis list events:dlq; index 1 is the left end
    email_count,  \* Redis keys email:count:<date>, each holding a count
    today,        \* date.today() as a day number
    next_id,      \* the next event_id / created_at the publisher hands out
    pc,           \* per worker: where EventConsumer.start() stands
    running,      \* per worker: EventConsumer._running
    inflight,     \* per worker: the dequeued event being handled, or NoEvent
    error,        \* per worker: the exception caught by _process_event, or NoError
    alert_sent,   \* per worker: EmailRateLimiter._alert_sent_today
    shutdown_event, \* per worker: EventConsumer._shutdown_event is set
    log,          \* the last record a worker logged about a skip, an alert, a retry
                  \* decision or an error of the loop
    processed,    \* event_ids logged as event_processed
    attempts,     \* per event_id: calls of processor.process
    requeues,     \* per event_id: events logged as event_requeued
    mail,         \* send_email calls of the workers: notifications and alerts
                  \* accepted by the SMTP server, alerts that raised, the days
                  \* on which an alert was accepted, the days on which
                  \* check_and_alert returned at its _alert_sent_today test
    pending,      \* the records pushed on events:queue and not yet popped, in
                  \* the order of the pushes (oldest first)
    daily_counts, \* the values returned by record_email_sent, in the order returned
    call          \* a direct call of a RetryHandler, of the rate limiter or of
                  \* the ingestion endpoint: arguments and results

redis_vars  == <<queue, dlq, email_count>>
worker_vars == <<pc, running, inflight, error, alert_sent, shutdown_event>>
ghost_vars  == <<log, processed, attempts, requeues, mail, pending, daily_counts>>
vars == <<settings, queue, dlq, email_count, today, next_id, pc, running, inflight,
          error, alert_sent, shutdown_event, log, processed, attempts, requeues,
          mail, pending, daily_counts, call>>


(***************************************************************************)
(* Python helpers.                                                         *)
(***************************************************************************)
\* dict.get(key) of a payload
payload_get(payload, key) ==
    IF key \in DOMAIN payload THEN payload[key] ELSE None

\* `not value` for a string or None
falsy(value) == value = None \/ value = ""

\* `a or b`
py_or(a, b) == IF falsy(a) THEN b ELSE a

(***************************************************************************)
(* app/services/redis_client.py                                            *)
(***************************************************************************)
\* LPUSH key value
lpush(list, value) == <<value>> \o list

\* what BRPOP key pops: the right end
brpop_value(list) == list[Len(list)]

\* faulty variant: the right end is read and left on the list (LINDEX -1)
brpop_rest_Peek(list) == list

\* the list BRPOP key leaves
brpop_rest(list) == SubSeq(list, 1, Len(list) - 1)

\* faulty variant: the event is pushed at the right end, where BRPOP pops
enqueue_event_Rpush(q, event) == q \o <<model_dump_json(event)>>

\* RedisClient.enqueue_event: the queue after LPUSH of the serialized event
enqueue_event(q, event) == lpush(q, model_dump_json(event))

\* faulty variant: the event is pushed without incrementing its retry count
requeue_event_NoIncrement(q, event) == enqueue_event(q, event)

\* faulty variant: the retried event is pushed at the right end, where BRPOP
\* pops, ahead of the events that wait
requeue_event_Front(q, event) == q \o <<model_dump_json(increment_retry(event))>>

\* RedisClient.requeue_event: the queue after the push of the incremented copy
requeue_event(q, event) == enqueue_event(q, increment_retry(event))

\* faulty variant: the dead-letter record carries the incremented event
send_to_dlq_Incremented(d, event, reason) ==
    lpush(d, [event |-> model_dump_json(increment_retry(event)), reason |-> reason])

\* RedisClient.send_to_dlq: the dead-letter list after LPUSH of {event, reason}
send_to_dlq(d, event, reason) ==
    lpush(d, [event |-> model_dump_json(event), reason |-> reason])

(***************************************************************************)
(* app/services/rate_limiter.py                                            *)
(***************************************************************************)
\* faulty variant: one key for every date
get_today_key_Undated(date) == "email:count"

\* EmailRateLimiter._get_today_key
get_today_key(date) == "email:count:" \o ToString(date)

\* EmailRateLimiter.get_today_count: GET of today's key; int(count) if count else 0
get_today_count(counts, date) ==
    IF get_today_key(date) \in DOMAIN counts THEN counts[get_today_key(date)] ELSE 0

\* EmailRateLimiter.can_send_email
can_send_email(counts, date, limit) == get_today_count(counts, date) < limit

\* faulty variant: the key is written from a count read at the start of the
\* day (SET key 1) instead of incremented
increment_count_Set(counts, date) ==
    IF get_today_key(date) \in DOMAIN counts
    THEN [counts EXCEPT ![get_today_key(date)] = 1]
    ELSE counts @@ (get_today_key(date) :> 1)

\* EmailRateLimiter.increment_count: the keys after INCR of today's key
\* (INCR creates a missing key at 0 first)
increment_count(counts, date) ==
    IF get_today_key(date) \in DOMAIN counts
    THEN [counts EXCEPT ![get_today_key(date)] = @ + 1]
    ELSE counts @@ (get_today_key(date) :> 1)

\* EmailRateLimiter.record_email_sent: the value increment_count returns, the
\* reply of INCR
record_email_sent(counts, date) == get_today_count(increment_count(counts, date), date)

(***************************************************************************)
(* Inputs.                                                                 *)
(***************************************************************************)
\* Largest daily_email_limit configured.
MaxDailyLimit == 1

\* The requests the ingestion endpoint publishes.
Requests ==
    { [user_id |-> "user-1", event_type |-> "EMAIL_NOTIFICATION",
       payload |-> [to_email |-> "a@example.com", message |-> "hello"]],
      [user_id |-> "user-2", event_type |-> "USER_NOTIFICATION",
       payload |-> [message |-> "hello"]] }

\* The exceptions the send raises in the pipeline.
SendErrors ==
    { [kind |-> "ConnectionError", message |-> "connection timeout"],
      [kind |-> "TimeoutError", message |-> "timed out"],
      [kind |-> "SMTPAuthenticationError", message |-> "(535, b'Username and Password not accepted')"],
      [kind |-> "ValueError", message |-> "validation error"] }

\* The exception a failed Redis command raises.
RedisError == [kind |-> "ConnectionError", message |-> "Error 111 connecting to localhost:6379. Connection refused."]

NoLog == [event |-> None]
\* `no event` and `no exception` of a worker
NoEvent == [none |-> "event"]
NoError == [none |-> "error"]
NoCall == [state |-> None]

\* The exceptions handed directly to a RetryHandler.
ErrorKinds ==
    {"ConnectionError", "TimeoutError", "OSError", "ValueError", "KeyError",
     "TypeError", "Exception", "RuntimeError", "ConnectionRefusedError"}

ErrorMessages ==
    {"", "Connection timeout occurred", "Network unreachable",
     "Invalid payload format", "User not found", "Something unexpected happened",
     "unexpected error", "TEMPORARY failure", "Service Unavailable",
     "please Retry later", "validation error", "Malformed JSON",
     "401 Unauthorized", "access FORBIDDEN", "invalid connection string",
     "network validation failed", "timed out", "time out", "notfound",
     "retrying", "invalidated", "bad value"}

Errors == [kind : ErrorKinds, message : ErrorMessages]

\* The direct calls: RetryHandler(max_retries=arg) under the settings'
\* max_retries, an event with the given retry_count, an error.
DirectCalls(Args, settings_max_retries, RetryCounts) ==
    { [state |-> "constructed", arg |-> arg,
       max_retries |-> RetryHandler_init(arg, settings_max_retries),
       event |-> [Event(1, 1, "USER_NOTIFICATION", "test-user", [k \in {} |-> ""])
                     EXCEPT !.retry_count = rc],
       error |-> e, failure_type |-> None,
       decision |-> RetryDecision(FALSE, None)] :
        arg \in Args, rc \in RetryCounts, e \in Errors }

SettingsSpace ==
    { [max_retries |-> m, daily_email_limit |-> l, smtp_user |-> u,
       smtp_password |-> u, alert_email |-> a] :
        m \in 0..MaxRetriesArg, l \in 1..MaxDailyLimit,
        u \in {"", "mailer"}, a \in {"", "admin@example.com"} }

(***************************************************************************)
(* Init: a fresh Redis, nothing published, the workers constructed         *)
(* (EventConsumer.__init__) and not yet started.                           *)
(***************************************************************************)
InitFrom(Workers, SettingsSet, Calls, SentToday) ==
    /\ settings \in SettingsSet
    /\ queue = <<>>
    /\ dlq = <<>>
    /\ \E sent \in SentToday :
          email_count = IF sent = 0 THEN [k \in {} |-> 0]
                        ELSE [k \in {get_today_key(1)} |-> sent]
    /\ today = 1
    /\ next_id = 1
    /\ pc = [w \in Workers |-> "new"]
    /\ running = [w \in Workers |-> FALSE]
    /\ inflight = [w \in Workers |-> NoEvent]
    /\ error = [w \in Workers |-> NoError]
    /\ alert_sent = [w \in Workers |-> FALSE]
    /\ shutdown_event = [w \in Workers |-> FALSE]
    /\ log = NoLog
    /\ processed = {}
    /\ attempts = [i \in Ids |-> 0]
    /\ requeues = [i \in Ids |-> 0]
    /\ mail = [notification |-> 0, alert |-> 0, alert_failed |-> 0,
               alerted_on |-> {}, suppressed_on |-> {}]
    /\ pending = <<>>
    /\ daily_counts = <<>>
    /\ call \in Calls

\* no email:count key yet for today
InitWith(Workers, SettingsSet, Calls) == InitFrom(Workers, SettingsSet, Calls, {0})

Init == InitWith({"w1"}, SettingsSpace, {NoCall})


(***************************************************************************)
(* app/services/event_publisher.py                                         *)
(***************************************************************************)
\* EventPublisher.publish: create the event and enqueue it
Publish(req) ==
    /\ next_id <= MaxEvents
    /\ LET event == Event(next_id, next_id, req.event_type, req.user_id, req.payload)
       IN  /\ queue' = enqueue_event(queue, event)
           /\ pending' = Append(pending, model_dump_json(event))
    /\ next_id' = next_id + 1
    /\ UNCHANGED <<settings, today, dlq, email_count, worker_vars, log, processed,
                   attempts, requeues, mail, daily_counts, call>>

(***************************************************************************)
(* worker/consumer.py: EventConsumer                                       *)
(***************************************************************************)
\* EventConsumer.start: `await self.redis_client.connect()` returns.  main()
\* installs the signal handlers and calls start() without a suspension in
\* between, so "new" is a worker suspended in that await.
Connect(w) ==
    /\ pc[w] = "new"
    /\ pc' = [pc EXCEPT ![w] = "connected"]
    /\ UNCHANGED <<settings, today, redis_vars, next_id, running, inflight, error,
                   alert_sent, shutdown_event, ghost_vars, call>>

\* EventConsumer.start: self._running = True, then _consume_loop()
SetRunning(w) ==
    /\ pc[w] = "connected"
    /\ running' = [running EXCEPT ![w] = TRUE]
    /\ pc' = [pc EXCEPT ![w] = "loop"]
    /\ UNCHANGED <<settings, today, redis_vars, next_id, inflight, error, alert_sent,
                   shutdown_event, ghost_vars, call>>

\* faulty variant: stop cancels the consumer task where it stands
Stop_Cancel(w) ==
    /\ pc[w] \notin {"connected", "stopped"}
    /\ running' = [running EXCEPT ![w] = FALSE]
    /\ shutdown_event' = [shutdown_event EXCEPT ![w] = TRUE]
    /\ pc' = [pc EXCEPT ![w] = "stopped"]
    /\ UNCHANGED <<settings, today, redis_vars, next_id, inflight, error,
                   alert_sent, ghost_vars, call>>

\* EventConsumer.stop, the task the signal handler creates.  It runs while the
\* worker is suspended in an await; start() does not await between connect()
\* and `self._running = True`, and a stopped worker has left asyncio.run.
Stop(w) ==
    /\ pc[w] \notin {"connected", "stopped"}
    /\ running' = [running EXCEPT ![w] = FALSE]
    /\ shutdown_event' = [shutdown_event EXCEPT ![w] = TRUE]
    /\ UNCHANGED <<settings, today, redis_vars, next_id, pc, inflight, error,
                   alert_sent, ghost_vars, call>>

\* faulty variant: the loop condition is inverted (`while not self._running`)
LoopTop_Inverted(w) ==
    /\ pc[w] = "loop"
    /\ pc' = [pc EXCEPT ![w] = IF running[w] THEN "stopped" ELSE "dequeue"]
    /\ UNCHANGED <<settings, today, redis_vars, next_id, running, inflight, error,
                   alert_sent, shutdown_event, ghost_vars, call>>

\* _consume_loop: `while self._running`; on exit start()'s finally disconnects
LoopTop(w) ==
    /\ pc[w] = "loop"
    /\ pc' = [pc EXCEPT ![w] = IF running[w] THEN "dequeue" ELSE "stopped"]
    /\ UNCHANGED <<settings, today, redis_vars, next_id, running, inflight, error,
                   alert_sent, shutdown_event, ghost_vars, call>>

\* _consume_loop's `except Exception`: the record it logs before the sleep
worker_consume_error(err) ==
    [event |-> "worker_consume_error", error_type |-> err.kind]

\* faulty variant: no `except Exception` in the loop, a raising BRPOP ends it
Dequeue_Crash(w, redis_ok) ==
    /\ pc[w] = "dequeue"
    /\ IF ~redis_ok
       THEN /\ pc' = [pc EXCEPT ![w] = "stopped"]
            /\ UNCHANGED <<queue, inflight, log, pending>>
       ELSE IF queue = <<>>
       THEN /\ pc' = [pc EXCEPT ![w] = "loop"]
            /\ UNCHANGED <<queue, inflight, log, pending>>
       ELSE /\ queue' = brpop_rest(queue)
            /\ pending' = SubSeq(pending, 2, Len(pending))
            /\ inflight' = [inflight EXCEPT ![w] = model_validate(brpop_value(queue))]
            /\ pc' = [pc EXCEPT ![w] = "process"]
            /\ UNCHANGED log
    /\ UNCHANGED <<settings, today, dlq, email_count, next_id, running, error,
                   alert_sent, shutdown_event, processed, attempts, requeues, mail,
                   daily_counts, call>>

\* _consume_loop: dequeue_event(timeout=1).  redis_ok: BRPOP did not raise.
\* None on an empty list (timeout); a raising BRPOP or a record that does not
\* validate is caught by `except Exception` (log, sleep) and the loop goes on.
Dequeue(w, redis_ok) ==
    /\ pc[w] = "dequeue"
    /\ IF ~redis_ok
       THEN /\ pc' = [pc EXCEPT ![w] = "loop"]
            /\ log' = worker_consume_error(RedisError)
            /\ UNCHANGED <<queue, inflight, pending>>
       ELSE IF queue = <<>>
       THEN /\ pc' = [pc EXCEPT ![w] = "loop"]
            /\ UNCHANGED <<queue, inflight, log, pending>>
       ELSE /\ queue' = brpop_rest(queue)
            /\ pending' = SubSeq(pending, 2, Len(pending))
            /\ IF model_validates(brpop_value(queue))
               THEN /\ inflight' = [inflight EXCEPT ![w] = model_validate(brpop_value(queue))]
                    /\ pc' = [pc EXCEPT ![w] = "process"]
                    /\ UNCHANGED log
               ELSE /\ pc' = [pc EXCEPT ![w] = "loop"]
                    /\ log' = worker_consume_error([kind |-> "ValidationError"])
                    /\ UNCHANGED inflight
    /\ UNCHANGED <<settings, today, dlq, email_count, next_id, running, error,
                   alert_sent, shutdown_event, processed, attempts, requeues, mail,
                   daily_counts, call>>

\* _process_event after processor.process returned: event_processed is logged
Succeed(w) ==
    /\ processed' = processed \cup {inflight[w].event_id}
    /\ inflight' = [inflight EXCEPT ![w] = NoEvent]
    /\ pc' = [pc EXCEPT ![w] = "loop"]

\* process: the warning it logs when it returns without sending
skip_record(name, event) == [event |-> name, event_id |-> event.event_id]

\* faulty variant: the rate limit is checked before the destination and the
\* SMTP configuration
Process_LimitFirst(w, redis_ok) ==
    /\ pc[w] = "process"
    /\ attempts' = [attempts EXCEPT ![inflight[w].event_id] = @ + 1]
    /\ LET payload  == inflight[w].payload
           to_email == py_or(payload_get(payload, "to_email"),
                             payload_get(payload, "email"))
       IN  IF ~redis_ok
           THEN /\ error' = [error EXCEPT ![w] = RedisError]
                /\ pc' = [pc EXCEPT ![w] = "failed"]
                /\ UNCHANGED <<inflight, processed, log>>
           ELSE IF ~can_send_email(email_count, today, settings.daily_email_limit)
           THEN /\ log' = skip_record("daily_email_limit_reached", inflight[w])
                /\ pc' = [pc EXCEPT ![w] = "alerting"]
                /\ UNCHANGED <<inflight, processed, error>>
           ELSE IF falsy(to_email)
           THEN /\ log' = skip_record("no_email_in_payload", inflight[w])
                /\ Succeed(w)
                /\ UNCHANGED error
           ELSE IF falsy(settings.smtp_user) \/ falsy(settings.smtp_password)
           THEN /\ log' = skip_record("smtp_not_configured", inflight[w])
                /\ Succeed(w)
                /\ UNCHANGED error
           ELSE /\ pc' = [pc EXCEPT ![w] = "sending"]
                /\ UNCHANGED <<inflight, processed, error, log>>
    /\ UNCHANGED <<settings, today, redis_vars, next_id, running, alert_sent,
                   shutdown_event, requeues, mail, pending, daily_counts, call>>

\* NotificationProcessor.process up to the rate-limit check: the destination,
\* then the SMTP configuration, then can_send_email.  redis_ok: the GET of
\* can_send_email did not raise; a raising GET leaves process and is caught by
\* _process_event.
Process(w, redis_ok) ==
    /\ pc[w] = "process"
    /\ attempts' = [attempts EXCEPT ![inflight[w].event_id] = @ + 1]
    /\ LET payload  == inflight[w].payload
           to_email == py_or(payload_get(payload, "to_email"),
                             payload_get(payload, "email"))
       IN  IF falsy(to_email)
           THEN /\ log' = skip_record("no_email_in_payload", inflight[w])
                /\ Succeed(w)
                /\ UNCHANGED error
           ELSE IF falsy(settings.smtp_user) \/ falsy(settings.smtp_password)
           THEN /\ log' = skip_record("smtp_not_configured", inflight[w])
                /\ Succeed(w)
                /\ UNCHANGED error
           ELSE IF ~redis_ok
           THEN /\ error' = [error EXCEPT ![w] = RedisError]
                /\ pc' = [pc EXCEPT ![w] = "failed"]
                /\ UNCHANGED <<inflight, processed, log>>
           ELSE IF ~can_send_email(email_count, today, settings.daily_email_limit)
           THEN /\ log' = skip_record("daily_email_limit_reached", inflight[w])
                /\ pc' = [pc EXCEPT ![w] = "alerting"]
                /\ UNCHANGED <<inflight, processed, error>>
           ELSE /\ pc' = [pc EXCEPT ![w] = "sending"]
                /\ UNCHANGED <<inflight, processed, error, log>>
    /\ UNCHANGED <<settings, today, redis_vars, next_id, running, alert_sent,
                   shutdown_event, requeues, mail, pending, daily_counts, call>>

\* check_and_alert: the record it logs after the alert's send
alert_record(smtp_ok) ==
    [event |-> IF smtp_ok THEN "email_limit_alert_sent"
                          ELSE "failed_to_send_limit_alert"]

\* faulty variant: _alert_sent_today is never set
Alert_NoFlag(w, smtp_ok, redis_ok) ==
    /\ pc[w] = "alerting"
    /\ IF ~alert_sent[w] /\ ~redis_ok
       THEN /\ error' = [error EXCEPT ![w] = RedisError]
            /\ pc' = [pc EXCEPT ![w] = "failed"]
            /\ UNCHANGED <<alert_sent, mail, log, inflight, processed>>
       ELSE /\ LET attempt ==
                       /\ ~alert_sent[w]
                       /\ get_today_count(email_count, today) >= settings.daily_email_limit
                       /\ ~falsy(settings.alert_email)
               IN  IF attempt /\ smtp_ok
                   THEN /\ mail' = [mail EXCEPT !.alert = @ + 1,
                                                !.alerted_on = @ \cup {today}]
                        /\ log' = alert_record(TRUE)
                        /\ UNCHANGED alert_sent
                   ELSE IF attempt
                   THEN /\ mail' = [mail EXCEPT !.alert_failed = @ + 1]
                        /\ log' = alert_record(FALSE)
                        /\ UNCHANGED alert_sent
                   ELSE IF alert_sent[w]
                   THEN /\ mail' = [mail EXCEPT !.suppressed_on = @ \cup {today}]
                        /\ UNCHANGED <<alert_sent, log>>
                   ELSE UNCHANGED <<alert_sent, mail, log>>
            /\ Succeed(w)
            /\ UNCHANGED error
    /\ UNCHANGED <<settings, today, redis_vars, next_id, running,
                   shutdown_event, attempts, requeues, pending, daily_counts,
                   call>>

\* faulty variant: reaching the daily limit is raised as an error of the event
Alert_Raise(w, smtp_ok, redis_ok) ==
    /\ pc[w] = "alerting"
    /\ error' = [error EXCEPT ![w] = [kind |-> "RuntimeError",
                                      message |-> "daily email limit reached"]]
    /\ pc' = [pc EXCEPT ![w] = "failed"]
    /\ UNCHANGED <<settings, today, redis_vars, next_id, running, inflight,
                   alert_sent, shutdown_event, ghost_vars, call>>

\* faulty variant: the flag is kept per date and is down on a new day
Alert_FlagPerDay(w, smtp_ok, redis_ok) ==
    /\ pc[w] = "alerting"
    /\ LET attempt ==
               /\ today \notin mail.alerted_on
               /\ get_today_count(email_count, today) >= settings.daily_email_limit
               /\ ~falsy(settings.alert_email)
       IN  IF attempt /\ smtp_ok
           THEN /\ alert_sent' = [alert_sent EXCEPT ![w] = TRUE]
                /\ mail' = [mail EXCEPT !.alert = @ + 1,
                                        !.alerted_on = @ \cup {today}]
                /\ log' = alert_record(TRUE)
           ELSE IF attempt
           THEN /\ mail' = [mail EXCEPT !.alert_failed = @ + 1]
                /\ log' = alert_record(FALSE)
                /\ UNCHANGED alert_sent
           ELSE UNCHANGED <<alert_sent, mail, log>>
    /\ Succeed(w)
    /\ UNCHANGED <<settings, today, redis_vars, next_id, running, error,
                   shutdown_event, attempts, requeues, pending, daily_counts,
                   call>>

\* faulty variant: the flag is raised before the alert is sent, so a failed
\* alert is never sent again
Alert_FlagFirst(w, smtp_ok, redis_ok) ==
    /\ pc[w] = "alerting"
    /\ LET attempt ==
               /\ ~alert_sent[w]
               /\ get_today_count(email_count, today) >= settings.daily_email_limit
               /\ ~falsy(settings.alert_email)
       IN  IF attempt
           THEN /\ alert_sent' = [alert_sent EXCEPT ![w] = TRUE]
                /\ mail' = IF smtp_ok
                           THEN [mail EXCEPT !.alert = @ + 1,
                                             !.alerted_on = @ \cup {today}]
                           ELSE [mail EXCEPT !.alert_failed = @ + 1]
                /\ log' = alert_record(smtp_ok)
           ELSE UNCHANGED <<alert_sent, mail, log>>
    /\ Succeed(w)
    /\ UNCHANGED <<settings, today, redis_vars, next_id, running, error,
                   shutdown_event, attempts, requeues, pending, daily_counts,
                   call>>

\* EmailRateLimiter.check_and_alert, then process returns.  smtp_ok: the
\* alert's send_email did not raise; a raising one is caught and logged.
\* redis_ok: the GET of get_today_count did not raise; it is issued outside
\* the try, after the _alert_sent_today test, and a raising one leaves process.
Alert(w, smtp_ok, redis_ok) ==
    /\ pc[w] = "alerting"
    /\ IF ~alert_sent[w] /\ ~redis_ok
       THEN /\ error' = [error EXCEPT ![w] = RedisError]
            /\ pc' = [pc EXCEPT ![w] = "failed"]
            /\ UNCHANGED <<alert_sent, mail, log, inflight, processed>>
       ELSE /\ LET attempt ==
                       /\ ~alert_sent[w]
                       /\ get_today_count(email_count, today) >= settings.daily_email_limit
                       /\ ~falsy(settings.alert_email)
               IN  IF attempt /\ smtp_ok
                   THEN /\ alert_sent' = [alert_sent EXCEPT ![w] = TRUE]
                        /\ mail' = [mail EXCEPT !.alert = @ + 1,
                                                !.alerted_on = @ \cup {today}]
                        /\ log' = alert_record(TRUE)
                   ELSE IF attempt
                   THEN /\ mail' = [mail EXCEPT !.alert_failed = @ + 1]
                        /\ log' = alert_record(FALSE)
                        /\ UNCHANGED alert_sent
                   ELSE IF alert_sent[w]
                   THEN /\ mail' = [mail EXCEPT !.suppressed_on = @ \cup {today}]
                        /\ UNCHANGED <<alert_sent, log>>
                   ELSE UNCHANGED <<alert_sent, mail, log>>
            /\ Succeed(w)
            /\ UNCHANGED error
    /\ UNCHANGED <<settings, today, redis_vars, next_id, running,
                   shutdown_event, attempts, requeues, pending, daily_counts,
                   call>>

\* process: send_email returned
SendOk(w) ==
    /\ pc[w] = "sending"
    /\ mail' = [mail EXCEPT !.notification = @ + 1]
    /\ pc' = [pc EXCEPT ![w] = "recording"]
    /\ UNCHANGED <<settings, today, redis_vars, next_id, running, inflight, error,
                   alert_sent, shutdown_event, log, processed, attempts, requeues,
                   pending, daily_counts, call>>

\* faulty variant: the send is recorded before it is made, so a send that
\* raises is counted
SendRaise_Counted(w, e) ==
    /\ pc[w] = "sending"
    /\ email_count' = increment_count(email_count, today)
    /\ error' = [error EXCEPT ![w] = e]
    /\ pc' = [pc EXCEPT ![w] = "failed"]
    /\ UNCHANGED <<settings, today, queue, dlq, next_id, running, inflight,
                   alert_sent, shutdown_event, ghost_vars, call>>

\* process: send_email raised e, caught by _process_event's `except Exception`
SendRaise(w, e) ==
    /\ pc[w] = "sending"
    /\ error' = [error EXCEPT ![w] = e]
    /\ pc' = [pc EXCEPT ![w] = "failed"]
    /\ UNCHANGED <<settings, today, redis_vars, next_id, running, inflight,
                   alert_sent, shutdown_event, ghost_vars, call>>

\* process: record_email_sent, then process returns.  redis_ok: INCR did not
\* raise; a raising INCR leaves process and is caught by _process_event.
Record(w, redis_ok) ==
    /\ pc[w] = "recording"
    /\ IF redis_ok
       THEN /\ email_count' = increment_count(email_count, today)
            /\ daily_counts' = Append(daily_counts,
                                      record_email_sent(email_count, today))
            /\ Succeed(w)
            /\ UNCHANGED error
       ELSE /\ error' = [error EXCEPT ![w] = RedisError]
            /\ pc' = [pc EXCEPT ![w] = "failed"]
            /\ UNCHANGED <<email_count, daily_counts, inflight, processed>>
    /\ UNCHANGED <<settings, today, queue, dlq, next_id, running, alert_sent,
                   shutdown_event, log, attempts, requeues, mail, pending, call>>

\* RetryHandler.log_retry_decision: the record it writes
log_retry_decision(max_retries, event, decision, err) ==
    IF decision.should_retry
    THEN [event |-> "retry_scheduled", event_id |-> event.event_id,
          retry_count |-> event.retry_count + 1, max_retries |-> max_retries,
          reason |-> decision.reason]
    ELSE [event |-> "retry_exhausted", event_id |-> event.event_id,
          retry_count |-> event.retry_count, reason |-> decision.reason,
          error_type |-> err.kind]

\* EventConsumer._handle_failure.  redis_ok: the LPUSH did not raise; a raising
\* LPUSH leaves _process_event and is caught by _consume_loop (log, sleep).
HandleFailure(w, redis_ok) ==
    /\ pc[w] = "failed"
    /\ LET max_retries == RetryHandler_init({}, settings.max_retries)
           event       == inflight[w]
       IN  \E decision \in {should_retry(max_retries, event, error[w])} :
           /\ log' = IF redis_ok
                     THEN log_retry_decision(max_retries, event, decision, error[w])
                     ELSE worker_consume_error(RedisError)
           /\ IF decision.should_retry /\ redis_ok
              THEN /\ queue' = requeue_event(queue, event)
                   /\ pending' = Append(pending,
                                        model_dump_json(increment_retry(event)))
                   /\ requeues' = [requeues EXCEPT ![event.event_id] = @ + 1]
                   /\ UNCHANGED dlq
              ELSE IF redis_ok
              THEN /\ dlq' = send_to_dlq(dlq, event, decision.reason)
                   /\ UNCHANGED <<queue, pending, requeues>>
              ELSE UNCHANGED <<queue, dlq, pending, requeues>>
    /\ inflight' = [inflight EXCEPT ![w] = NoEvent]
    /\ error' = [error EXCEPT ![w] = NoError]
    /\ pc' = [pc EXCEPT ![w] = "loop"]
    /\ UNCHANGED <<settings, today, email_count, next_id, running, alert_sent,
                   shutdown_event, processed, attempts, mail, daily_counts, call>>

(***************************************************************************)
(* Specifications.                                                         *)
(***************************************************************************)
\* Records on events:queue that Event.model_validate refuses: an event_type
\* outside EventType, a retry_count below the field's ge=0.
MalformedRecords ==
    { [model_dump_json(Event(1, 1, "USER_NOTIFICATION", "user-3", [message |-> "hello"]))
          EXCEPT !.event_id = "3", !.event_type = "PUSH_NOTIFICATION"],
      [model_dump_json(Event(1, 1, "USER_NOTIFICATION", "user-4", [message |-> "hello"]))
          EXCEPT !.event_id = "4", !.retry_count = -1] }

\* Another client of the Redis list (a producer of another schema version, an
\* operator) LPUSHes a record that dequeue_event cannot validate.
ForeignPush(record) ==
    /\ \A i \in 1..Len(queue) : queue[i] # record
    /\ queue' = lpush(queue, record)
    /\ pending' = Append(pending, record)
    /\ UNCHANGED <<settings, today, dlq, email_count, next_id, worker_vars, log,
                   processed, attempts, requeues, mail, daily_counts, call>>

(***************************************************************************)
(* app/api/events.py: POST /api/v1/events                                  *)
(***************************************************************************)
\* a user_id of n characters
RECURSIVE user_id_of_length(_)
user_id_of_length(n) ==
    IF n = 0 THEN ""
    ELSE IF n % 2 = 0
    THEN LET half == user_id_of_length(n \div 2) IN half \o half
    ELSE "u" \o user_id_of_length(n - 1)

\* EventCreate's bounds on user_id
user_id_min_length == 1
user_id_max_length == 128

\* The JSON bodies posted to the endpoint; a field left out of the record is
\* left out of the body.
ApiRequests ==
    { [user_id |-> "test-user-123", event_type |-> "USER_NOTIFICATION",
       payload |-> [message |-> "Hello, World!"]],
      [user_id |-> user_id_of_length(user_id_max_length),
       event_type |-> "EMAIL_NOTIFICATION",
       payload |-> [to_email |-> "a@example.com", message |-> "hello"]],
      [user_id |-> "u", event_type |-> "SYSTEM_ALERT"],
      [event_type |-> "USER_NOTIFICATION", payload |-> [message |-> "hello"]],
      [user_id |-> "", event_type |-> "USER_NOTIFICATION",
       payload |-> [message |-> "hello"]],
      [user_id |-> user_id_of_length(user_id_max_length + 1),
       event_type |-> "USER_NOTIFICATION", payload |-> [message |-> "hello"]],
      [user_id |-> "test-user", event_type |-> "INVALID_TYPE",
       payload |-> [message |-> "hello"]],
      [user_id |-> "test-user", payload |-> [message |-> "hello"]] }

\* faulty variant: user_id has no max_length
EventCreate_validates_NoMax(body) ==
    /\ "user_id" \in DOMAIN body
    /\ Len(body.user_id) >= user_id_min_length
    /\ "event_type" \in DOMAIN body
    /\ body.event_type \in EventType

\* FastAPI builds the EventCreate from the body: user_id required with
\* min_length and max_length, event_type required and a member of EventType
EventCreate_validates(body) ==
    /\ "user_id" \in DOMAIN body
    /\ Len(body.user_id) >= user_id_min_length
    /\ Len(body.user_id) <= user_id_max_length
    /\ "event_type" \in DOMAIN body
    /\ body.event_type \in EventType

\* the EventCreate of an accepted body; payload defaults to the empty dict
EventCreate(body) ==
    [user_id |-> body.user_id, event_type |-> body.event_type,
     payload |-> IF "payload" \in DOMAIN body THEN body.payload
                 ELSE [k \in {} |-> ""]]

\* Event.to_response
to_response(event) ==
    [event_id |-> ToString(event.event_id), status |-> "queued",
     queued_at |-> event.created_at]

\* create_event: a body that does not validate is answered 422 before the
\* handler runs; otherwise publisher.publish creates and enqueues the event and
\* its response is returned with 201.
create_event(body) ==
    /\ IF ~EventCreate_validates(body)
       THEN /\ call' = [state |-> "responded", request |-> body,
                        status_code |-> 422]
            /\ UNCHANGED <<queue, pending, next_id>>
       ELSE /\ next_id <= MaxEvents
            /\ LET req   == EventCreate(body)
                   event == Event(next_id, next_id, req.event_type, req.user_id,
                                  req.payload)
               IN  /\ queue' = enqueue_event(queue, event)
                   /\ pending' = Append(pending, model_dump_json(event))
                   /\ call' = [state |-> "responded", request |-> body,
                               status_code |-> 201,
                               response |-> to_response(event)]
            /\ next_id' = next_id + 1
    /\ UNCHANGED <<settings, today, dlq, email_count, worker_vars, log, processed,
                   attempts, requeues, mail, daily_counts>>

(***************************************************************************)
(* The calendar and the other processes on the same Redis.                 *)
(***************************************************************************)
\* Last day number date.today() reaches.
MaxDays == 2

\* midnight of the service-local clock: date.today() returns the next date
NextDay ==
    /\ today < MaxDays
    /\ today' = today + 1
    /\ UNCHANGED <<settings, redis_vars, next_id, worker_vars, ghost_vars, call>>

\* Another worker process on the same Redis delivered a notification and its
\* record_email_sent increments today's key; it sends only while its own
\* can_send_email is true.
OtherWorkerRecords ==
    /\ can_send_email(email_count, today, settings.daily_email_limit)
    /\ email_count' = increment_count(email_count, today)
    /\ UNCHANGED <<settings, today, queue, dlq, next_id, worker_vars, ghost_vars,
                   call>>

Producer == \E req \in Requests : Publish(req)

\* Redis answers every command.
Next ==
    \/ Producer
    \/ \E w \in DOMAIN pc : Connect(w)
    \/ \E w \in DOMAIN pc : SetRunning(w)
    \/ \E w \in DOMAIN pc : Stop(w)
    \/ \E w \in DOMAIN pc : LoopTop(w)
    \/ \E w \in DOMAIN pc : Dequeue(w, TRUE)
    \/ \E w \in DOMAIN pc : Process(w, TRUE)
    \/ \E w \in DOMAIN pc : \E smtp_ok \in BOOLEAN : Alert(w, smtp_ok, TRUE)
    \/ \E w \in DOMAIN pc : SendOk(w)
    \/ \E w \in DOMAIN pc : \E e \in SendErrors : SendRaise(w, e)
    \/ \E w \in DOMAIN pc : Record(w, TRUE)
    \/ \E w \in DOMAIN pc : HandleFailure(w, TRUE)

Spec == Init /\ [][Next]_vars

\* A Redis command of the worker may raise (connection lost).
NextFaulty ==
    \/ Producer
    \/ \E w \in DOMAIN pc : Connect(w)
    \/ \E w \in DOMAIN pc : SetRunning(w)
    \/ \E w \in DOMAIN pc : Stop(w)
    \/ \E w \in DOMAIN pc : LoopTop(w)
    \/ \E w \in DOMAIN pc : \E redis_ok \in BOOLEAN : Dequeue(w, redis_ok)
    \/ \E w \in DOMAIN pc : \E redis_ok \in BOOLEAN : Process(w, redis_ok)
    \/ \E w \in DOMAIN pc : \E smtp_ok, redis_ok \in BOOLEAN : Alert(w, smtp_ok, redis_ok)
    \/ \E w \in DOMAIN pc : SendOk(w)
    \/ \E w \in DOMAIN pc : \E e \in SendErrors : SendRaise(w, e)
    \/ \E w \in DOMAIN pc : \E redis_ok \in BOOLEAN : Record(w, redis_ok)
    \/ \E w \in DOMAIN pc : \E redis_ok \in BOOLEAN : HandleFailure(w, redis_ok)

SpecFaulty == Init /\ [][NextFaulty]_vars


\* The same faults under one retry budget, the alert address unset.
InitFaulty ==
    InitWith({"w1"},
             {s \in SettingsSpace : /\ s.alert_email = "" /\ s.daily_email_limit = 1
                                    /\ s.max_retries = 1},
             {NoCall})

SpecFaultyRedis == InitFaulty /\ [][NextFaulty]_vars

\* One step of worker w while Redis answers every command.
WorkerStep(w) ==
    \/ Connect(w)
    \/ SetRunning(w)
    \/ LoopTop(w)
    \/ Dequeue(w, TRUE)
    \/ Process(w, TRUE)
    \/ \E smtp_ok \in BOOLEAN : Alert(w, smtp_ok, TRUE)
    \/ SendOk(w)
    \/ \E e \in SendErrors : SendRaise(w, e)
    \/ Record(w, TRUE)
    \/ HandleFailure(w, TRUE)

\* A worker that is never asked to stop and whose event loop keeps running it.
NextLive ==
    \/ Producer
    \/ \E w \in DOMAIN pc : WorkerStep(w)

\* (the alert destination plays no part in an event leaving the pipeline; the
\* smallest daily limit makes both the send and the rate-limit skip happen)
InitLive ==
    InitWith({"w1"},
             {s \in SettingsSpace : s.alert_email = "" /\ s.daily_email_limit = 1},
             {NoCall})

SpecLive ==
    /\ InitLive
    /\ [][NextLive]_vars
    /\ \A w \in {"w1"} : WF_vars(WorkerStep(w))

\* A worker that may be asked to stop at any await and whose event loop keeps
\* running it: every dequeue returns within its timeout, every call of the
\* processor returns or raises.
SpecStop ==
    /\ InitLive
    /\ [][Next]_vars
    /\ \A w \in {"w1"} : WF_vars(WorkerStep(w))

\* A worker started on a day whose counter is either absent or already at the
\* daily limit (the emails an earlier run sent today), SMTP configured.
InitCeiling ==
    \E s \in {x \in SettingsSpace : x.smtp_user # "" /\ x.max_retries = 1} :
        InitFrom({"w1"}, {s}, {NoCall}, {0, s.daily_email_limit})

SpecCeiling == InitCeiling /\ [][NextLive]_vars

\* A worker started on a day whose counter is either absent or already at the
\* daily limit, with or without SMTP credentials, the alert address set, while
\* a Redis command of the worker may raise.
InitSkip ==
    \E s \in {x \in SettingsSpace : x.alert_email # "" /\ x.max_retries = 1} :
        InitFrom({"w1"}, {s}, {NoCall}, {0, s.daily_email_limit})

SpecSkip == InitSkip /\ [][NextFaulty]_vars

\* A worker never asked to stop, on a list that also receives records it cannot
\* validate.
NextCorrupt ==
    \/ Producer
    \/ \E w \in DOMAIN pc : WorkerStep(w)
    \/ \E record \in MalformedRecords : ForeignPush(record)

SpecCorrupt == InitLive /\ [][NextCorrupt]_vars

\* The endpoint in front of a worker that is never asked to stop.
InitIngest ==
    InitWith({"w1"},
             {s \in SettingsSpace : /\ s.alert_email = "" /\ s.smtp_user # ""
                                    /\ s.daily_email_limit = 1
                                    /\ s.max_retries = 1},
             {NoCall})

NextIngest ==
    \/ \E body \in ApiRequests : create_event(body)
    \/ \E w \in DOMAIN pc : WorkerStep(w)

SpecIngest == InitIngest /\ [][NextIngest]_vars

\* A worker never asked to stop, running over midnight next to other workers,
\* started on a day whose counter is absent or already at the limit.
NextDays ==
    \/ Producer
    \/ \E w \in DOMAIN pc : WorkerStep(w)
    \/ NextDay
    \/ OtherWorkerRecords

SpecDays == InitCeiling /\ [][NextDays]_vars

\* Two worker processes on the same Redis, never asked to stop, under settings
\* with which an event is sent, fails, is retried and is rate-limited.
InitWorkers ==
    InitWith({"w1", "w2"},
             {s \in SettingsSpace : /\ s.alert_email # "" /\ s.smtp_user # ""
                                    /\ s.daily_email_limit = 1
                                    /\ s.max_retries = 1},
             {NoCall})

SpecWorkers == InitWorkers /\ [][NextLive]_vars

(***************************************************************************)
(* Direct calls of a RetryHandler, as the unit tests make them.            *)
(***************************************************************************)
pipeline_vars == <<settings, queue, dlq, email_count, today, next_id, pc,
                   running, inflight, error, alert_sent, shutdown_event, log,
                   processed, attempts, requeues, mail, pending, daily_counts>>

\* handler.classify_failure(error)
Classify ==
    /\ call.state = "constructed"
    /\ call' = [call EXCEPT !.state = "classified",
                            !.failure_type = classify_failure(call.error)]
    /\ UNCHANGED pipeline_vars

\* handler.should_retry(event, error)
Decide ==
    /\ call.state = "classified"
    /\ call' = [call EXCEPT !.state = "decided",
                            !.decision = should_retry(call.max_retries, call.event,
                                                      call.error)]
    /\ UNCHANGED pipeline_vars

InitRetry ==
    \E s \in {x \in SettingsSpace : /\ x.smtp_user = "" /\ x.alert_email = ""
                                    /\ x.daily_email_limit = 1} :
        InitWith({"w1"}, {s},
                 DirectCalls({{}} \cup {{m} : m \in 0..MaxRetriesArg},
                             s.max_retries, 0..MaxRetryCount))

NextRetry == Classify \/ Decide

SpecRetry == InitRetry /\ [][NextRetry]_vars

\* classify_failure alone, on a handler built from the default settings
InitClassify ==
    \E s \in {x \in SettingsSpace : /\ x.smtp_user = "" /\ x.alert_email = ""
                                    /\ x.daily_email_limit = 1
                                    /\ x.max_retries = MaxRetriesArg} :
        InitWith({"w1"}, {s}, DirectCalls({{}}, s.max_retries, {0}))

NextClassify == Classify

SpecClassify == InitClassify /\ [][NextClassify]_vars


\* The errors of the second of two calls: one for each way classify_failure
\* reaches a classification.
OtherErrors ==
    { [kind |-> "ConnectionError", message |-> ""],
      [kind |-> "Exception", message |-> "Network unreachable"],
      [kind |-> "ValueError", message |-> "bad value"],
      [kind |-> "Exception", message |-> "validation error"],
      [kind |-> "RuntimeError", message |-> "Something unexpected happened"] }

\* Two calls of one handler: events of the same retry_count that differ in
\* every other field, and two errors.
PairCalls(Args, settings_max_retries, RetryCounts) ==
    { [state |-> "constructed", arg |-> arg,
       max_retries |-> RetryHandler_init(arg, settings_max_retries),
       event |-> [Event(1, 1, "USER_NOTIFICATION", "test-user", [k \in {} |-> ""])
                     EXCEPT !.retry_count = rc],
       error |-> e, failure_type |-> None,
       decision |-> RetryDecision(FALSE, None),
       other_event |-> [Event(2, 2, "EMAIL_NOTIFICATION", "user-1",
                              [to_email |-> "a@example.com"])
                           EXCEPT !.retry_count = rc],
       other_error |-> o, other_failure_type |-> None,
       other_decision |-> RetryDecision(FALSE, None)] :
        arg \in Args, rc \in RetryCounts, e \in Errors, o \in OtherErrors }

\* handler.should_retry(event, error); handler.should_retry(other_event,
\* other_error)
DecidePair ==
    /\ call.state = "constructed"
    /\ call' = [call EXCEPT
                  !.state = "decided",
                  !.failure_type = classify_failure(call.error),
                  !.decision = should_retry(call.max_retries, call.event, call.error),
                  !.other_failure_type = classify_failure(call.other_error),
                  !.other_decision = should_retry(call.max_retries, call.other_event,
                                                  call.other_error)]
    /\ UNCHANGED pipeline_vars

InitPair ==
    \E s \in {x \in SettingsSpace : /\ x.smtp_user = "" /\ x.alert_email = ""
                                    /\ x.daily_email_limit = 1
                                    /\ x.max_retries = MaxRetriesArg} :
        InitWith({"w1"}, {s},
                 PairCalls({{}} \cup {{m} : m \in 0..MaxRetriesArg},
                           s.max_retries, 0..MaxRetryCount))

NextPair == DecidePair

SpecPair == InitPair /\ [][NextPair]_vars

\* The events given to increment_retry.
Payloads == {[k \in {} |-> ""], [k \in {"key"} |-> "value"]}

Events ==
    { [Event(id, now, event_type, user_id, payload) EXCEPT !.retry_count = rc] :
        id \in Ids, now \in Ids, event_type \in EventType,
        user_id \in {"test-user", "user-456"}, payload \in Payloads,
        rc \in 0..MaxRetryCount }

\* original = Event(...); updated = original.increment_retry()
Increment ==
    /\ call.state = "constructed"
    /\ call' = [call EXCEPT !.state = "incremented",
                            !.original = increment_retry_self(call.original),
                            !.updated = increment_retry(call.original)]
    /\ UNCHANGED pipeline_vars

InitIncrement ==
    \E s \in {x \in SettingsSpace : /\ x.smtp_user = "" /\ x.alert_email = ""
                                    /\ x.daily_email_limit = 1
                                    /\ x.max_retries = MaxRetriesArg} :
        InitWith({"w1"}, {s},
                 { [state |-> "constructed", given |-> e, original |-> e,
                    updated |-> NoEvent] : e \in Events })

NextIncrement == Increment

SpecIncrement == InitIncrement /\ [][NextIncrement]_vars

(***************************************************************************)
(* Direct calls of the EmailRateLimiter of each worker process.            *)
(***************************************************************************)
\* Most reads a worker makes between two record_email_sent calls.
MaxReads == 2

\* faulty variant: the count is read with GETDEL
get_today_count_store_Getdel(counts, date) ==
    [k \in DOMAIN counts \ {get_today_key(date)} |-> counts[k]]

\* EmailRateLimiter.get_today_count: the keys after its GET
get_today_count_store(counts, date) == counts

\* the reads since the last record_email_sent: per worker the values
\* get_today_count returned and the last answer of can_send_email
NoReads(Workers) ==
    [state |-> "limiter", counts |-> [w \in Workers |-> <<>>],
     can_send |-> [w \in Workers |-> {}]]

\* await rate_limiter.get_today_count()
GetTodayCount(w) ==
    /\ call.state = "limiter"
    /\ Len(call.counts[w]) < MaxReads
    /\ call' = [call EXCEPT !.counts[w] = Append(@, get_today_count(email_count, today))]
    /\ email_count' = get_today_count_store(email_count, today)
    /\ UNCHANGED <<settings, today, queue, dlq, next_id, worker_vars, ghost_vars>>

\* await rate_limiter.can_send_email()
CanSendEmail(w) ==
    /\ call.state = "limiter"
    /\ call' = [call EXCEPT !.can_send[w] =
                    {can_send_email(email_count, today, settings.daily_email_limit)}]
    /\ email_count' = get_today_count_store(email_count, today)
    /\ UNCHANGED <<settings, today, queue, dlq, next_id, worker_vars, ghost_vars>>

\* await rate_limiter.record_email_sent(), by any worker
RecordEmailSent(w) ==
    /\ call.state = "limiter"
    /\ Len(daily_counts) <= settings.daily_email_limit
    /\ email_count' = increment_count(email_count, today)
    /\ daily_counts' = Append(daily_counts, record_email_sent(email_count, today))
    /\ call' = NoReads(DOMAIN pc)
    /\ UNCHANGED <<settings, today, queue, dlq, next_id, worker_vars, log,
                   processed, attempts, requeues, mail, pending>>

InitLimiter ==
    InitWith({"w1", "w2"},
             {s \in SettingsSpace : s.smtp_user # "" /\ s.max_retries = 1},
             {NoReads({"w1", "w2"})})

NextLimiter ==
    \/ \E w \in DOMAIN pc : GetTodayCount(w)
    \/ \E w \in DOMAIN pc : CanSendEmail(w)
    \/ \E w \in DOMAIN pc : RecordEmailSent(w)

SpecLimiter == InitLimiter /\ [][NextLimiter]_vars


(***************************************************************************)
(* Properties of the retry handler (SpecRetry, SpecClassify).              *)
(***************************************************************************)
\* the message holds one of the words, case-insensitively
HasWord(words, message) ==
    \E word \in words : \E i \in 1..(Len(message) - Len(word) + 1) :
        str_lower(SubSeq(message, i, i + Len(word) - 1)) = word

TransientWords ==
    {"timeout", "connection", "temporary", "unavailable", "retry", "network"}
PermanentWords ==
    {"validation", "invalid", "malformed", "not found", "unauthorized", "forbidden"}

Classified == call.state \in {"classified", "decided"}

\* C4: for every retry_count k and every classification c, should_retry is
\* true exactly when c is TRANSIENT or UNKNOWN and k < max_retries (so it is
\* false for k >= max_retries whatever c is, and for PERMANENT whatever k is).
C4_DecideTable ==
    call.state = "decided" =>
        /\ call.decision.should_retry
             <=> /\ call.failure_type \in {"transient", "unknown"}
                 /\ call.event.retry_count < call.max_retries
        /\ call.event.retry_count >= call.max_retries => ~call.decision.should_retry
        /\ call.failure_type = "permanent" => ~call.decision.should_retry

\* C4 witness: a transient error at exactly retry_count = max_retries is refused
\* while the handler has a positive budget.
C4_Witness ==
    /\ call.state = "decided"
    /\ call.failure_type = "transient"
    /\ call.max_retries > 0
    /\ call.event.retry_count = call.max_retries
    /\ ~call.decision.should_retry

\* C8: an error whose message holds a transient word (any letter case) is
\* classified TRANSIENT, whatever its kind and whatever else the message holds.
C8_TransientWordWins ==
    (Classified /\ HasWord(TransientWords, call.error.message))
        => call.failure_type = "transient"

\* C8 witness: a permanent-kind error whose message holds a capitalised
\* transient word is classified TRANSIENT.
C8_Witness ==
    /\ Classified
    /\ call.error.kind = "ValueError"
    /\ call.error.message = "please Retry later"
    /\ call.failure_type = "transient"

\* C9 as stated: an error whose message holds a permanent word is classified
\* PERMANENT.
C9_Original ==
    (Classified /\ HasWord(PermanentWords, call.error.message))
        => call.failure_type = "permanent"

\* C9 amended: an error whose message holds a permanent word and no transient
\* word is classified PERMANENT, whatever its kind.
C9_PermanentWordWins ==
    (/\ Classified
     /\ HasWord(PermanentWords, call.error.message)
     /\ ~HasWord(TransientWords, call.error.message))
        => call.failure_type = "permanent"

\* C9 witness: a transient-kind error whose message holds only a permanent
\* word is classified PERMANENT.
C9_Witness ==
    /\ Classified
    /\ call.error.kind = "ConnectionError"
    /\ call.error.message = "User not found"
    /\ call.failure_type = "permanent"

\* C10: classify is total and first-match-wins in the order transient word,
\* permanent word, transient kind, permanent kind, UNKNOWN.
C10_FirstMatchWins ==
    Classified =>
        \E t \in {HasWord(TransientWords, call.error.message)} :
        \E p \in {HasWord(PermanentWords, call.error.message)} :
        LET kind == call.error.kind
            c    == call.failure_type
        IN  /\ c \in {"transient", "permanent", "unknown"}
            /\ (~t /\ ~p /\ kind \in {"ConnectionError", "TimeoutError", "OSError"})
                   => c = "transient"
            /\ (~t /\ ~p /\ kind \in {"ValueError", "KeyError", "TypeError"})
                   => c = "permanent"
            /\ (~t /\ ~p /\ kind \notin {"ConnectionError", "TimeoutError", "OSError",
                                         "ValueError", "KeyError", "TypeError"})
                   => c = "unknown"
            /\ (t /\ kind \in {"ValueError", "KeyError", "TypeError"})
                   => c = "transient"
            /\ (p /\ ~t /\ kind \in {"ConnectionError", "TimeoutError", "OSError"})
                   => c = "permanent"

\* C10 witness: an error matching no vocabulary and no kind set is UNKNOWN.
C10_Witness ==
    /\ Classified
    /\ call.error.kind = "ConnectionRefusedError"
    /\ call.error.message = "timed out"
    /\ call.failure_type = "unknown"


\* C11: increment_retry returns an event equal to the original in event_id,
\* event_type, user_id, payload, created_at and version, with retry_count
\* exactly one greater, and the original keeps its retry_count (and every
\* other field).
C11_IncrementCopies ==
    call.state = "incremented" =>
        /\ call.updated.event_id = call.given.event_id
        /\ call.updated.event_type = call.given.event_type
        /\ call.updated.user_id = call.given.user_id
        /\ call.updated.payload = call.given.payload
        /\ call.updated.created_at = call.given.created_at
        /\ call.updated.version = call.given.version
        /\ call.updated.retry_count = call.given.retry_count + 1
        /\ DOMAIN call.updated = DOMAIN call.given
        /\ call.original.retry_count = call.given.retry_count
        /\ call.original = call.given

\* an event with a payload and earlier retries has been incremented
C11_Witness ==
    /\ call.state = "incremented"
    /\ call.given.retry_count = 2
    /\ call.given.payload # [k \in {} |-> ""]
    /\ call.updated.retry_count = 3
    /\ call.original.retry_count = 2

(***************************************************************************)
(* Properties of the consumer pipeline (Spec, SpecFaulty).                 *)
(***************************************************************************)
\* worker w holds a dequeued event
Holding(w) == pc[w] \in {"process", "alerting", "sending", "recording", "failed"}

\* this step is worker w's _handle_failure
HandlesFailure(w) == pc[w] = "failed" /\ pc'[w] # "failed"

\* the event_id written in a queue record or dead-letter record
OnQueue(id)      == \E i \in 1..Len(queue) : queue[i].event_id = ToString(id)
OnDeadLetter(id) == \E i \in 1..Len(dlq) : dlq[i].event.event_id = ToString(id)

\* C1: when processing of a dequeued event with retry_count = k raises an error
\* classified TRANSIENT or UNKNOWN and k < max_retries, exactly one copy of the
\* event with retry_count = k+1 is pushed on the main queue, nothing is pushed
\* on the dead-letter queue, and the reason names the classification and
\* "k+1/max_retries".
C1_RetriableIsRequeued ==
    [][\A w \in DOMAIN pc :
        (/\ HandlesFailure(w)
         /\ classify_failure(error[w]) \in {"transient", "unknown"}
         /\ inflight[w].retry_count < settings.max_retries)
        => /\ Len(queue') = Len(queue) + 1
           /\ SubSeq(queue', 2, Len(queue')) = queue
           /\ queue'[1] = [model_dump_json(inflight[w])
                              EXCEPT !.retry_count = inflight[w].retry_count + 1]
           /\ dlq' = dlq
           /\ log'.event = "retry_scheduled"
           /\ log'.event_id = inflight[w].event_id
           /\ str_in(classify_failure(error[w]), log'.reason)
           /\ str_in(ToString(inflight[w].retry_count + 1) \o "/"
                         \o ToString(settings.max_retries), log'.reason)]_vars

\* C1 witness: with max_retries = 3, an event that failed at retry_count 0 with
\* the "connection timeout" error is on the queue with retry_count 1, the
\* dead-letter queue is empty and the reason reads "transient ... 1/3".
C1_Witness ==
    /\ settings.max_retries = 3
    /\ log.event = "retry_scheduled"
    /\ log.reason = "transient failure, retry 1/3"
    /\ queue # <<>>
    /\ queue[1].event_id = ToString(log.event_id)
    /\ queue[1].retry_count = 1
    /\ \A i \in 2..Len(queue) : queue[i].event_id # ToString(log.event_id)
    /\ dlq = <<>>

\* C2: when processing of an event with retry_count >= max_retries raises a
\* TRANSIENT or UNKNOWN error, exactly one {event, reason} record is pushed on
\* the dead-letter queue, with the event's retry_count unchanged and the reason
\* "Max retries (max_retries) exceeded", and the main queue is left as it was.
C2_ExhaustedIsDeadLettered ==
    [][\A w \in DOMAIN pc :
        (/\ HandlesFailure(w)
         /\ classify_failure(error[w]) \in {"transient", "unknown"}
         /\ inflight[w].retry_count >= settings.max_retries)
        => /\ dlq' = <<[event  |-> model_dump_json(inflight[w]),
                        reason |-> "Max retries (" \o ToString(settings.max_retries)
                                       \o ") exceeded"]>> \o dlq
           /\ dlq'[1].event.retry_count = inflight[w].retry_count
           /\ queue' = queue]_vars

\* C2 witness: with max_retries = 3 an event with retry_count 3 is on the
\* dead-letter queue with the reason "Max retries (3) exceeded", and not on
\* the main queue.
C2_Witness ==
    /\ settings.max_retries = 3
    /\ log.event = "retry_exhausted"
    /\ dlq # <<>>
    /\ dlq[1].reason = "Max retries (3) exceeded"
    /\ dlq[1].event.retry_count = 3
    /\ dlq[1].event.event_id = ToString(log.event_id)
    /\ ~OnQueue(log.event_id)

\* C3: when processing fails with an error classified PERMANENT the event is
\* dead-lettered on that attempt, whatever its retry_count, with a reason
\* citing "Permanent failure"; it is not requeued, then or later.
C3_PermanentIsDeadLettered ==
    /\ [][\A w \in DOMAIN pc :
            (HandlesFailure(w) /\ classify_failure(error[w]) = "permanent")
            => /\ Len(dlq') = Len(dlq) + 1
               /\ SubSeq(dlq', 2, Len(dlq')) = dlq
               /\ dlq'[1].event = model_dump_json(inflight[w])
               /\ str_in("Permanent failure", dlq'[1].reason)
               /\ queue' = queue]_vars
    /\ [](\A id \in Ids : OnDeadLetter(id) => ~OnQueue(id))

\* C3 witness: two events are dead-lettered for a permanent failure, one at
\* retry_count 0 and one at retry_count = max_retries >= 1.
C3_Witness ==
    /\ settings.max_retries >= 1
    /\ \E i, j \in 1..Len(dlq) :
        /\ dlq[i].event.retry_count = 0
        /\ dlq[j].event.retry_count = settings.max_retries
        /\ str_in("Permanent failure", dlq[i].reason)
        /\ str_in("Permanent failure", dlq[j].reason)

\* C5: each event is handed to the processor at most max_retries + 1 times and
\* requeued at most max_retries times; the attempt in hand is attempt
\* retry_count + 1; an event dead-lettered for an exhausted budget was requeued
\* exactly max_retries times and dead-lettered on attempt max_retries + 1.
C5_RetriesBounded ==
    /\ \A id \in Ids :
        /\ attempts[id] <= settings.max_retries + 1
        /\ requeues[id] <= settings.max_retries
    /\ \A w \in DOMAIN pc :
        (Holding(w) /\ pc[w] # "process")
        => /\ attempts[inflight[w].event_id] = inflight[w].retry_count + 1
           /\ requeues[inflight[w].event_id] = inflight[w].retry_count
    /\ \A i \in 1..Len(dlq) :
        dlq[i].reason = "Max retries (" \o ToString(settings.max_retries) \o ") exceeded"
        => /\ dlq[i].event.retry_count = settings.max_retries
           /\ requeues[parse_number(dlq[i].event.event_id)] = settings.max_retries
           /\ attempts[parse_number(dlq[i].event.event_id)] = settings.max_retries + 1

\* C5 witness: with max_retries = 3 an event is dead-lettered for an exhausted
\* budget after 3 requeues, on its 4th attempt.
C5_Witness ==
    /\ settings.max_retries = 3
    /\ \E i \in 1..Len(dlq) :
        /\ dlq[i].reason = "Max retries (3) exceeded"
        /\ requeues[parse_number(dlq[i].event.event_id)] = 3
        /\ attempts[parse_number(dlq[i].event.event_id)] = 4

\* C12: the retry_count carried by an event on the main queue, in flight or on
\* the dead-letter queue is the number of times that event id was requeued
\* after a failed attempt; it is 0 for an event just published, and per step
\* the number of requeues of an id stays or grows by exactly 1.
C12_RetryCountCountsRequeues ==
    /\ [](/\ \A i \in 1..Len(queue) :
               queue[i].retry_count = requeues[parse_number(queue[i].event_id)]
          /\ \A w \in DOMAIN pc :
               Holding(w) => inflight[w].retry_count = requeues[inflight[w].event_id]
          /\ \A i \in 1..Len(dlq) :
               dlq[i].event.retry_count
                   = requeues[parse_number(dlq[i].event.event_id)])
    /\ [][/\ \A id \in Ids : requeues'[id] \in {requeues[id], requeues[id] + 1}
          /\ next_id' # next_id
              => \E i \in 1..Len(queue') :
                    /\ queue'[i].event_id = ToString(next_id)
                    /\ queue'[i].retry_count = 0]_vars

\* C12 witness: one event waits on the main queue after two requeues while
\* the other lies on the dead-letter queue with the count of its requeues.
C12_Witness ==
    /\ \E i \in 1..Len(queue) :
          /\ queue[i].retry_count = 2
          /\ requeues[parse_number(queue[i].event_id)] = 2
    /\ \E i \in 1..Len(dlq) :
          /\ dlq[i].event.retry_count >= 1
          /\ requeues[parse_number(dlq[i].event.event_id)] = dlq[i].event.retry_count

\* C13: the main queue is first-in first-out between enqueue and dequeue: at
\* every moment it holds the records pushed and not yet popped in the order
\* of their pushes, the oldest at the end BRPOP pops, and each dequeue hands
\* the single consumer the oldest of them, so an event whose enqueue
\* completed first is dequeued first.
C13_QueueIsFifo ==
    /\ [](/\ Len(queue) = Len(pending)
          /\ \A i \in 1..Len(queue) : queue[i] = pending[Len(pending) - i + 1])
    /\ [][\A w \in DOMAIN pc :
            (pc[w] = "dequeue" /\ pc'[w] = "process")
            => /\ model_dump_json(inflight'[w]) = Head(pending)
               /\ \A i \in 1..Len(queue') : queue'[i] # Head(pending)]_vars

\* C13 witness: event 1 was published before event 2, was dequeued first, has
\* failed and been requeued; the worker now holds event 2, dequeued before the
\* requeued record of event 1 that waits behind it.
C13_Witness ==
    /\ Len(pending) = 1
    /\ pending[1].event_id = "1"
    /\ pending[1].retry_count = 1
    /\ queue = <<pending[1]>>
    /\ \E w \in DOMAIN pc :
          /\ Holding(w)
          /\ inflight[w].event_id = 2
          /\ inflight[w].retry_count = 0

\* C14: with several workers on one main queue no two of them hold the same
\* queue entry (the same event id at the same retry_count) at the same time,
\* and each dequeue removes from the queue the one entry it hands out.
C14_OneWorkerPerEntry ==
    /\ [](\A w1, w2 \in DOMAIN pc :
            (w1 # w2 /\ Holding(w1) /\ Holding(w2))
            => ~(/\ inflight[w1].event_id = inflight[w2].event_id
                 /\ inflight[w1].retry_count = inflight[w2].retry_count))
    /\ [][\A w \in DOMAIN pc :
            (pc[w] = "dequeue" /\ pc'[w] = "process")
            => /\ Len(queue') = Len(queue) - 1
               /\ \A i \in 1..Len(queue') :
                     queue'[i] # model_dump_json(inflight'[w])]_vars

\* C14 witness: two workers hold an event each at the same time.
C14_Witness ==
    /\ Cardinality(DOMAIN pc) = 2
    /\ \A w \in DOMAIN pc : Holding(w)
    /\ \E w1, w2 \in DOMAIN pc : inflight[w1].event_id # inflight[w2].event_id

C16_StopAlwaysStops ==
    \A w \in {"w1"} : shutdown_event[w] ~> (pc[w] = "stopped")

\* C17: an error raised by the dequeue call never ends the consumer loop.  A
\* dequeue that hands out no event leaves the worker at the top of the loop
\* with both queues as they were; from there a worker not asked to stop goes
\* back to dequeuing, however many dequeues failed before; and a worker is
\* stopped only after a stop request.
C17_DequeueErrorKeepsLooping ==
    /\ [](\A w \in DOMAIN pc : pc[w] = "stopped" => shutdown_event[w])
    /\ [][\A w \in DOMAIN pc :
            /\ (pc[w] = "dequeue" /\ pc'[w] # "dequeue" /\ pc'[w] # "process")
               => /\ pc'[w] = "loop"
                  /\ UNCHANGED <<queue, dlq, inflight, running>>
            /\ (pc[w] = "loop" /\ running[w] /\ pc'[w] # "loop")
               => pc'[w] = "dequeue"]_vars

\* C17 witness: before any event was handled a dequeue has raised and been
\* logged, and the worker is dequeuing again with the event still queued.
C17_Witness ==
    \E w \in DOMAIN pc :
        /\ log = worker_consume_error(RedisError)
        /\ \A id \in Ids : attempts[id] = 0
        /\ queue # <<>>
        /\ running[w]
        /\ pc[w] = "dequeue"

\* C18: every error raised by the processor is caught at the consumer loop
\* boundary: the worker goes on to the failure handling, never out of the
\* loop, and leaves the failure handling for the top of the loop with the
\* event requeued or dead-lettered.
C18_ProcessorErrorsAreHandled ==
    [][\A w \in DOMAIN pc :
        /\ (pc[w] \in {"process", "alerting", "sending", "recording"}
            /\ error'[w] # NoError)
           => pc'[w] = "failed" /\ inflight'[w] = inflight[w]
        /\ (pc[w] = "failed" /\ pc'[w] # "failed")
           => /\ pc'[w] = "loop"
              /\ \/ \E i \in 1..Len(queue') :
                      queue'[i].event_id = ToString(inflight[w].event_id)
                 \/ \E i \in 1..Len(dlq') :
                      dlq'[i].event.event_id = ToString(inflight[w].event_id)]_vars

\* C19: the record_email_sent calls of concurrent workers on a fresh day's
\* counter lose no update: after N calls, however the workers interleave, the
\* counter is N and the calls have returned 1, 2, ..., N, each value once.
C19_NoLostUpdate ==
    /\ get_today_count(email_count, today) = Len(daily_counts)
    /\ \A i \in 1..Len(daily_counts) : daily_counts[i] = i
    /\ \A w \in DOMAIN pc :
          pc[w] = "recording"
          => record_email_sent(email_count, today) = Len(daily_counts) + 1

\* C19 witness: under a daily limit of 1 two workers have both passed the
\* limit check before either recorded, and their two calls returned 1 and 2.
C19_Witness ==
    /\ Cardinality(DOMAIN pc) = 2
    /\ settings.daily_email_limit = 1
    /\ daily_counts = <<1, 2>>
    /\ get_today_count(email_count, today) = 2

\* the alert sends invoked so far, accepted or raised
AlertsInvoked == mail.alert + mail.alert_failed

\* worker w is about to process an event with a destination while SMTP is
\* configured and today's counter is at the daily limit
AtCeiling(w) ==
    /\ pc[w] = "process"
    /\ ~falsy(py_or(payload_get(inflight[w].payload, "to_email"),
                    payload_get(inflight[w].payload, "email")))
    /\ ~falsy(settings.smtp_user)
    /\ ~can_send_email(email_count, today, settings.daily_email_limit)

\* C20 as stated: at the ceiling, processing an event with a destination
\* sends no notification and invokes the alert exactly once; a second such
\* event of the same run invokes no second alert.  (After every event handled
\* at the ceiling the run has invoked exactly one alert.)
C20_Original ==
    [][\A w \in DOMAIN pc :
        /\ (AtCeiling(w) /\ pc'[w] # "process")
           => pc'[w] = "alerting" /\ mail' = mail
        /\ (pc[w] = "alerting" /\ pc'[w] # "alerting")
           => /\ mail'.notification = mail.notification
              /\ AlertsInvoked' = 1]_vars

\* C20: at the ceiling, processing an event with a destination sends no
\* notification and leaves the counter alone; it invokes the alert send
\* exactly once if an alert address is configured and no alert send of this
\* run has succeeded yet, and not at all otherwise; so at most one alert is
\* delivered per run and none after it.
C20_AlertOncePerRun ==
    /\ [](\A w \in DOMAIN pc :
            /\ mail.alert <= 1
            /\ alert_sent[w] <=> mail.alert = 1
            /\ falsy(settings.alert_email) => AlertsInvoked = 0)
    /\ [][\A w \in DOMAIN pc :
            /\ (AtCeiling(w) /\ pc'[w] # "process")
               => pc'[w] = "alerting" /\ mail' = mail
            /\ (pc[w] = "alerting" /\ pc'[w] # "alerting")
               => /\ mail'.notification = mail.notification
                  /\ email_count' = email_count
                  /\ AlertsInvoked' =
                        IF ~falsy(settings.alert_email) /\ ~alert_sent[w]
                        THEN AlertsInvoked + 1 ELSE AlertsInvoked
                  /\ alert_sent[w] => /\ mail'.alert = mail.alert
                                      /\ mail'.alert_failed = mail.alert_failed]_vars

\* C20 witness: the counter was at the ceiling from the start, the first event
\* was handled with one alert delivered and no notification sent, and the
\* worker is handling a second event with a destination at the ceiling.
C20_Witness ==
    \E w \in DOMAIN pc :
        /\ pc[w] = "alerting"
        /\ inflight[w].event_id = 2
        /\ processed = {1}
        /\ alert_sent[w]
        /\ mail.notification = 0 /\ mail.alert = 1 /\ mail.alert_failed = 0

\* C21: an event with a destination, handled with SMTP configured while
\* can_send_email() is false, is handled successfully: the processor passes to
\* check_and_alert and returns, the event is logged as processed, nothing is
\* pushed on the main queue or the dead-letter queue, no notification is sent,
\* no error is caught and the daily counter is unchanged.
C21_LimitSkipIsSuccess ==
    [][\A w \in DOMAIN pc :
        /\ (AtCeiling(w) /\ pc'[w] # "process")
           => /\ pc'[w] = "alerting"
              /\ inflight'[w] = inflight[w]
              /\ error'[w] = NoError
              /\ <<queue, dlq, email_count, mail>>' = <<queue, dlq, email_count, mail>>
        /\ (pc[w] = "alerting" /\ pc'[w] # "alerting")
           => /\ pc'[w] = "loop"
              /\ inflight'[w] = NoEvent
              /\ error'[w] = NoError
              /\ processed' = processed \cup {inflight[w].event_id}
              /\ <<queue, dlq, email_count, requeues>>' = <<queue, dlq, email_count, requeues>>
              /\ mail'.notification = mail.notification]_vars

\* an event was skipped at the limit and logged as processed; the counter
\* stands at the limit and no notification was sent for it
C21_Witness ==
    /\ 1 \in processed
    /\ attempts[1] = 1
    /\ mail.notification = 0
    /\ get_today_count(email_count, today) = settings.daily_email_limit
    /\ queue = <<>> /\ dlq = <<>>
    /\ pc["w1"] = "loop"

\* C22: in the processor only the send puts an event on the retry path: an
\* exception is caught by _process_event, and the event handed to
\* _handle_failure, only when send_email raised; the destination check, the
\* configuration check, the rate-limit check and alert, and record_email_sent
\* after a successful send never raise out of process.
C22_OnlyTheSendFails ==
    [][\A w \in DOMAIN pc :
        (pc[w] # "failed" /\ pc'[w] = "failed") => pc[w] = "sending"]_vars

\* the notification was delivered, record_email_sent raised, and the event is
\* on its way to _handle_failure
C22_RecordRaised ==
    /\ pc["w1"] = "failed"
    /\ error["w1"] = RedisError
    /\ mail.notification = 1

\* the event worker w is about to process has no destination address
NoDestination(w) ==
    /\ pc[w] = "process"
    /\ falsy(py_or(payload_get(inflight[w].payload, "to_email"),
                   payload_get(inflight[w].payload, "email")))

\* the worker has no SMTP credentials
NoCredentials(w) ==
    /\ pc[w] = "process"
    /\ falsy(settings.smtp_user) \/ falsy(settings.smtp_password)

\* C23: an event without to_email and email, or any event when the SMTP
\* credentials are not set, is handled successfully whatever the daily counter
\* holds and whether or not Redis answers: nothing is sent, no alert is
\* invoked, the counter is neither read nor changed, the event is logged as
\* processed and is pushed on neither list.  The missing destination is
\* reported before the missing credentials, and both before the rate limit.
C23_SkipsTouchNothing ==
    [][\A w \in DOMAIN pc :
        (pc'[w] # "process" /\ (NoDestination(w) \/ NoCredentials(w)))
        => /\ pc'[w] = "loop"
           /\ inflight'[w] = NoEvent
           /\ error'[w] = NoError
           /\ processed' = processed \cup {inflight[w].event_id}
           /\ <<queue, dlq, email_count, mail, alert_sent, requeues>>'
                 = <<queue, dlq, email_count, mail, alert_sent, requeues>>
           /\ log' = skip_record(IF NoDestination(w) THEN "no_email_in_payload"
                                 ELSE "smtp_not_configured", inflight[w])]_vars

\* with the counter at the limit and the alert address set, an event without a
\* destination and one with a destination were both skipped for want of
\* credentials or destination: nothing was sent and no alert invoked
C23_Witness ==
    /\ processed = {1, 2}
    /\ falsy(settings.smtp_user)
    /\ ~falsy(settings.alert_email)
    /\ get_today_count(email_count, today) = settings.daily_email_limit
    /\ log = [event |-> "smtp_not_configured", event_id |-> 2]
    /\ mail.notification = 0 /\ mail.alert = 0 /\ mail.alert_failed = 0
    /\ queue = <<>> /\ dlq = <<>>

\* worker w's dequeue pops a record that Event.model_validate refuses
MeetsMalformed(w) ==
    /\ pc[w] = "dequeue"
    /\ pc'[w] # "dequeue"
    /\ queue # <<>>
    /\ ~model_validates(brpop_value(queue))

\* C24: a record on the main queue that fails to validate is not dropped by
\* the dequeue that meets it: after the step the record is on the main queue
\* or in a dead-letter record.
C24_MalformedIsKept ==
    [][\A w \in DOMAIN pc :
        MeetsMalformed(w)
        => \/ \E i \in 1..Len(queue') : queue'[i] = brpop_value(queue)
           \/ \E i \in 1..Len(dlq') : dlq'[i].event = brpop_value(queue)]_vars

\* C24, the part that holds: the dequeue that meets such a record raises into
\* the loop's `except Exception`, which logs it; no event is handed to the
\* processor and the loop goes on.
C24_MalformedIsLogged ==
    [][\A w \in DOMAIN pc :
        MeetsMalformed(w)
        => /\ log' = worker_consume_error([kind |-> "ValidationError"])
           /\ inflight'[w] = NoEvent
           /\ pc'[w] = "loop"]_vars

\* the constraints of a request or queue record: user_id present, of 1 to 128
\* characters, event_type one of the four of the enumeration
SatisfiesConstraints(r) ==
    /\ "user_id" \in DOMAIN r
    /\ Len(r.user_id) \in 1..128
    /\ "event_type" \in DOMAIN r
    /\ r.event_type \in {"USER_NOTIFICATION", "SYSTEM_ALERT", "EMAIL_NOTIFICATION",
                         "SMS_NOTIFICATION"}

\* C25: the endpoint enqueues exactly the valid requests.  A body without
\* user_id, with an empty user_id, a user_id of more than 128 characters or an
\* event_type outside the enumeration is answered 422 and the main queue is
\* unchanged; a valid body adds exactly one event to the main queue, carrying
\* the body's user_id and event_type and retry_count 0, and is answered 201
\* with that event's id and status "queued"; every record on the main queue
\* satisfies the constraints.
C25_EndpointEnqueuesValidOnly ==
    [][/\ (call' # call /\ call'.state = "responded")
          => IF SatisfiesConstraints(call'.request)
             THEN /\ call'.status_code = 201
                  /\ call'.response.status = "queued"
                  /\ queue' = <<queue'[1]>> \o queue
                  /\ queue'[1].user_id = call'.request.user_id
                  /\ queue'[1].event_type = call'.request.event_type
                  /\ queue'[1].retry_count = 0
                  /\ queue'[1].event_id = call'.response.event_id
                  /\ dlq' = dlq
             ELSE /\ call'.status_code = 422
                  /\ queue' = queue
                  /\ dlq' = dlq
       /\ \A i \in 1..Len(queue') : SatisfiesConstraints(queue'[i])
       /\ \A i \in 1..Len(dlq') : SatisfiesConstraints(dlq'[i].event)]_vars

\* a body with a user_id of 129 characters has just been answered 422 while an
\* accepted event with the 128-character user_id waits on the queue
C25_Witness ==
    /\ call.state = "responded"
    /\ call.status_code = 422
    /\ "user_id" \in DOMAIN call.request
    /\ Len(call.request.user_id) = 129
    /\ Len(queue) = 1
    /\ Len(queue[1].user_id) = 128

\* C26: reading the rate limiter does not change it.  A get_today_count or
\* can_send_email call leaves every email:count key as it was; all the
\* get_today_count calls made by any worker since the last record_email_sent
\* returned the same value, the number of emails recorded today; and
\* can_send_email answered true exactly when that number was below
\* daily_email_limit.
C26_ReadsChangeNothing ==
    [][/\ daily_counts' = daily_counts => email_count' = email_count
       /\ \A w \in DOMAIN pc :
            /\ \A i \in 1..Len(call'.counts[w]) :
                  call'.counts[w][i] = Len(daily_counts')
            /\ call'.can_send[w] \subseteq
                  {Len(daily_counts') < settings.daily_email_limit}]_vars

\* after one recorded email both workers have read the count twice and asked
\* can_send_email, all with the same answers
C26_Witness ==
    /\ call.state = "limiter"
    /\ Len(daily_counts) = 1
    /\ \A w \in DOMAIN pc : call.counts[w] = <<1, 1>>
    /\ \A w \in DOMAIN pc : call.can_send[w] = {1 < settings.daily_email_limit}

\* the workers whose send succeeded and whose record_email_sent is still to run
Recording == {w \in DOMAIN pc : pc[w] = "recording"}

\* C27: record_email_sent runs once per notification send that succeeded and
\* only after it.  With one worker, one date and a Redis that answers, today's
\* counter equals the number of notifications delivered, less the one whose
\* record_email_sent is about to run; alerts are not counted; a send that
\* raises leaves the counter as it was; the counter changes only by the
\* increment that follows a delivered notification.
C27_CounterCountsSends ==
    [][/\ get_today_count(email_count', today') + Cardinality(Recording')
             = mail'.notification
       /\ \A w \in DOMAIN pc :
            (pc[w] = "sending" /\ pc'[w] = "failed") => email_count' = email_count
       /\ email_count' # email_count
          => \E w \in DOMAIN pc :
                /\ pc[w] = "recording" /\ pc'[w] = "loop"
                /\ get_today_count(email_count', today')
                      = get_today_count(email_count, today) + 1]_vars

\* a send raised and the event was requeued, a notification was delivered and
\* counted, and an alert was delivered for the next event: the counter is 1
C27_Witness ==
    /\ \E id \in Ids : requeues[id] > 0
    /\ mail.notification = 1
    /\ mail.alert = 1
    /\ get_today_count(email_count, today) = 1
    /\ Recording = {}

Days == 1..MaxDays

\* C29: the daily counter is scoped to the date.  While the date stays the
\* same the count of no date decreases, and only today's changes; when the
\* date rolls over no key is written or deleted, and the new date's count
\* reads 0 and can_send_email is true, whatever the previous day's count was.
C29_CounterIsPerDate ==
    [][/\ today' = today
          => \A d \in Days :
                /\ get_today_count(email_count', d) >= get_today_count(email_count, d)
                /\ d # today
                   => get_today_count(email_count', d) = get_today_count(email_count, d)
       /\ today' # today
          => /\ email_count' = email_count
             /\ get_today_count(email_count', today') = 0
             /\ can_send_email(email_count', today', settings.daily_email_limit)]_vars

\* day 1 ended with the counter at the limit after a send of this worker; on
\* day 2 the count reads 0 and can_send_email is true again
C29_Witness ==
    /\ today = 2
    /\ mail.notification >= 1
    /\ get_today_count(email_count, 1) >= settings.daily_email_limit
    /\ ~can_send_email(email_count, 1, settings.daily_email_limit)
    /\ get_today_count(email_count, today) = 0
    /\ can_send_email(email_count, today, settings.daily_email_limit)

\* C30: an event handled while can_send_email() is false stays in the
\* pipeline: when the processor returns from the rate-limit skip the event is
\* on the main queue again, to be sent once the date has rolled over.
C30_LimitedEventStaysQueued ==
    [][\A w \in DOMAIN pc :
        (pc[w] = "alerting" /\ pc'[w] # "alerting")
        => \E i \in 1..Len(queue') :
              queue'[i].event_id = ToString(inflight[w].event_id)]_vars

\* the event skipped at the limit on day 1 is logged as processed and on no
\* list; on day 2 the worker is idle on an empty queue and nothing was sent
C30_SkippedEventIsGone ==
    /\ today = 2
    /\ can_send_email(email_count, today, settings.daily_email_limit)
    /\ log = skip_record("daily_email_limit_reached", [event_id |-> 1])
    /\ processed = {1}
    /\ next_id = 2
    /\ mail.notification = 0
    /\ queue = <<>> /\ dlq = <<>>
    /\ pc["w1"] = "dequeue"

\* two calls were decided whose errors have the same classification
SameClassification ==
    /\ call.state = "decided"
    /\ call.failure_type = call.other_failure_type

\* C31 as stated: two should_retry calls of one handler on events of the same
\* retry_count and errors of the same classification return the same
\* RetryDecision, should_retry and reason, whatever the events' other fields
\* and the errors' kinds and messages.
C31_Original ==
    SameClassification => call.decision = call.other_decision

\* C31: two should_retry calls of one handler on events of the same
\* retry_count and errors of the same classification return the same
\* should_retry, and the same reason unless the classification is PERMANENT,
\* where the reason names the classification and then each error's own kind
\* and message.
C31_DecisionIsDeterministic ==
    SameClassification
    => /\ call.decision.should_retry = call.other_decision.should_retry
       /\ call.failure_type # "permanent"
          => call.decision.reason = call.other_decision.reason
       /\ call.failure_type = "permanent"
          => /\ SubSeq(call.decision.reason, 1, 19) = "Permanent failure: "
             /\ SubSeq(call.other_decision.reason, 1, 19) = "Permanent failure: "
             /\ call.error = call.other_error
                => call.decision.reason = call.other_decision.reason

\* two events that differ in id, type, user and payload failed with errors of
\* different kinds and messages, both TRANSIENT, and got the same retry
\* decision
C31_Witness ==
    /\ SameClassification
    /\ call.failure_type = "transient"
    /\ call.error.kind # call.other_error.kind
    /\ call.error.message # call.other_error.message
    /\ call.decision.should_retry
    /\ call.decision = call.other_decision

\* C32: the daily ceiling holds for the sends that are made: on one date the
\* workers sharing the counter deliver no more notifications than
\* daily_email_limit, however their can_send_email, send_email and
\* record_email_sent steps interleave.
C32_SendsWithinCeiling ==
    mail.notification <= settings.daily_email_limit

\* the places event id occupies: main-queue records, workers handling it,
\* dead-letter records
Copies(id) ==
    Cardinality({i \in 1..Len(queue) : queue[i].event_id = ToString(id)})
    + Cardinality({w \in DOMAIN pc : Holding(w) /\ inflight[w].event_id = id})
    + Cardinality({i \in 1..Len(dlq) : dlq[i].event.event_id = ToString(id)})

\* C33: with several workers on one Redis, every event id occurs at most once
\* across the main queue, the events the workers are handling and the
\* dead-letter queue; an event logged as processed occurs in none of them.
C33_OneLiveCopy ==
    \A id \in Ids :
        /\ Copies(id) <= 1
        /\ id \in processed => Copies(id) = 0

\* after a retry one worker handles the requeued copy of an event while the
\* other event lies on the dead-letter queue, each in exactly one place
C33_Witness ==
    \E id, other \in Ids :
        /\ id # other
        /\ requeues[id] = 1
        /\ \E w \in DOMAIN pc : Holding(w) /\ inflight[w].event_id = id
        /\ Copies(id) = 1
        /\ OnDeadLetter(other)
        /\ Copies(other) = 1

\* the reason should_retry gives when the budget is spent
BudgetSpent(reason) ==
    reason = "Max retries (" \o ToString(settings.max_retries) \o ") exceeded"

\* C34: every record on the main queue and every event wrapped in a
\* dead-letter record has 0 <= retry_count <= max_retries, and an event
\* dead-lettered because the budget was spent has retry_count = max_retries.
C34_RetryCountWithinBudget ==
    /\ \A i \in 1..Len(queue) :
          queue[i].retry_count >= 0 /\ queue[i].retry_count <= settings.max_retries
    /\ \A i \in 1..Len(dlq) :
          /\ dlq[i].event.retry_count >= 0
          /\ dlq[i].event.retry_count <= settings.max_retries
          /\ BudgetSpent(dlq[i].reason)
             => dlq[i].event.retry_count = settings.max_retries

\* an event waits on the main queue for its last attempt while another lies
\* on the dead-letter queue with the budget spent, both at max_retries
C34_Witness ==
    /\ settings.max_retries >= 2
    /\ \E i \in 1..Len(queue) : queue[i].retry_count = settings.max_retries
    /\ \E i \in 1..Len(dlq) :
          /\ BudgetSpent(dlq[i].reason)
          /\ dlq[i].event.retry_count = settings.max_retries

\* C35: a handler constructed with an explicit max_retries = m decides with
\* the budget m, for every m >= 0: once the decision is made, a TRANSIENT or
\* UNKNOWN failure is retried exactly when event.retry_count < m, so with
\* m = 0 an event with retry_count 0 is not retried
C35_ExplicitBudgetApplied ==
    (/\ call.state = "decided"
     /\ call.arg # {}
     /\ call.failure_type \in {TRANSIENT, UNKNOWN})
    => \A m \in call.arg :
          /\ call.max_retries = m
          /\ call.decision.should_retry = (call.event.retry_count < m)

\* C36: a failing alert is contained and attempted again.  While no alert of
\* the run has been delivered the flag is down.  A check_and_alert made with
\* the flag down, Redis answering, whose alert send raises or which finds no
\* alert address, leaves the flag down and delivers nothing, and the event is
\* handled successfully: it is logged as processed, no error is caught and
\* neither list changes.  Every check_and_alert made with the flag down and an
\* alert address configured invokes the alert send, however many earlier ones
\* failed.
C36_FailedAlertRetried ==
    /\ [](\A w \in DOMAIN pc : mail.alert = 0 => ~alert_sent[w])
    /\ [][\A w \in DOMAIN pc :
            (pc[w] = "alerting" /\ pc'[w] # "alerting" /\ ~alert_sent[w])
            => /\ AlertsInvoked' =
                     IF falsy(settings.alert_email) THEN AlertsInvoked
                     ELSE AlertsInvoked + 1
               /\ (mail'.alert = mail.alert)
                  => /\ ~alert_sent'[w]
                     /\ pc'[w] = "loop"
                     /\ error'[w] = NoError
                     /\ inflight'[w] = NoEvent
                     /\ processed' = processed \cup {inflight[w].event_id}
                     /\ <<queue, dlq, email_count, requeues>>'
                           = <<queue, dlq, email_count, requeues>>
                     /\ mail'.notification = mail.notification]_vars

\* C36 witness: two events were rate-limited in one run, the alert send was
\* invoked for each and raised both times, both events are logged as
\* processed and the flag is still down
C36_Witness ==
    /\ ~falsy(settings.alert_email)
    /\ processed = {1, 2}
    /\ mail.alert_failed = 2 /\ mail.alert = 0 /\ mail.notification = 0
    /\ \A w \in DOMAIN pc : ~alert_sent[w] /\ pc[w] = "loop"
    /\ queue = <<>> /\ dlq = <<>>

\* worker w's step pushes the event it holds back on the main queue
Requeues(w) ==
    /\ pc[w] = "failed"
    /\ pc'[w] # "failed"
    /\ requeues' # requeues

\* C37: a requeued event goes to the tail of the main queue in the step that
\* decides the retry: the requeue pushes the incremented copy at the end
\* opposite to the one BRPOP pops and leaves the waiting records as they were;
\* each dequeue pops the record at the pop end; every other step leaves the
\* waiting records in place next to the pop end.  So the records waiting at
\* the requeue are all dequeued before the retried one, and a retried event
\* pushed on an empty queue stays at the pop end until the next dequeue takes
\* it.
C37_RequeueAtTail ==
    [][\A w \in DOMAIN pc :
        /\ Requeues(w)
           => /\ Len(queue') = Len(queue) + 1
              /\ SubSeq(queue', 2, Len(queue')) = queue
              /\ queue'[1].event_id = ToString(inflight[w].event_id)
              /\ queue'[1].retry_count = inflight[w].retry_count + 1
              /\ queue = <<>> => brpop_value(queue') = queue'[1]
        /\ (pc[w] = "dequeue" /\ pc'[w] = "process")
           => /\ model_dump_json(inflight'[w]) = queue[Len(queue)]
              /\ queue' = SubSeq(queue, 1, Len(queue) - 1)
        /\ (/\ \A v \in DOMAIN pc : ~(pc[v] = "dequeue" /\ pc'[v] # "dequeue")
            /\ Len(queue') >= Len(queue))
           => SubSeq(queue', Len(queue') - Len(queue) + 1, Len(queue')) = queue
        /\ Len(queue') < Len(queue)
           => \E v \in DOMAIN pc : pc[v] = "dequeue" /\ pc'[v] = "process"]_vars

\* C37 witness: event 1 failed while event 2 was waiting and has just been
\* requeued: its copy with retry_count 1 is at the tail and event 2, never
\* dequeued, is the record the next dequeue pops
C37_Witness ==
    /\ log.event = "retry_scheduled"
    /\ Len(queue) = 2
    /\ queue[1].event_id = "1" /\ queue[1].retry_count = 1
    /\ brpop_value(queue).event_id = "2"
    /\ brpop_value(queue).retry_count = 0
    /\ requeues[2] = 0
    /\ \A w \in DOMAIN pc : ~Holding(w)

\* C38: after a stop request the worker issues no further dequeue: once the
\* request has been delivered the worker never passes from the top of the
\* loop into dequeue_event, so at most the dequeue that was in flight when
\* the request arrived hands it one more event.
C38_NoDequeueAfterStop ==
    [][\A w \in DOMAIN pc :
        shutdown_event[w] => ~(pc[w] = "loop" /\ pc'[w] = "dequeue")]_vars

\* C6: no event taken off the main queue is lost: every published event is on
\* the main queue, held by a worker, processed, or on the dead-letter queue.
C6_NoEventLost ==
    \A id \in Ids :
        id < next_id
        => \/ OnQueue(id)
           \/ \E w \in DOMAIN pc : Holding(w) /\ inflight[w].event_id = id
           \/ id \in processed
           \/ OnDeadLetter(id)


\* an event has left the pipeline: processed, or on the dead-letter queue
Left(id) == id \in processed \/ OnDeadLetter(id)

\* C7: with a running, fairly scheduled worker and a Redis that answers, every
\* event on the main queue is eventually processed or dead-lettered, and the
\* main queue eventually becomes and stays empty.
\* (processed and the dead-letter queue only grow, so "eventually always every
\* published event has left" says that each of them eventually leaves)
C7_EveryEventLeaves ==
    <>[](/\ queue = <<>>
         /\ \A id \in Ids : id < next_id => Left(id))

\* C7 witness: every event was published, one was processed, one went around
\* the retry loop to the dead-letter queue, and the main queue is empty.
C7_Witness ==
    /\ next_id > MaxEvents
    /\ queue = <<>>
    /\ processed # {}
    /\ \E i \in 1..Len(dlq) : dlq[i].event.retry_count >= 1
    /\ \A id \in Ids : Left(id)

=============================================================================
